---- MODULE Spec2Model ----
(***************************************************************************)
(* Model of the provider integration layer of Deepcision:                  *)
(* api_integration/__init__.py (error taxonomy, OpenRouterConfig),         *)
(* api_integration/openrouter_api.py (OpenRouterAPI),                      *)
(* api_integration/deepseek_api.py (DeepSeekAPI) and                       *)
(* agents/role_manager.py (RoleConfig, Agent, RoleManager).                *)
(*                                                                         *)
(* Spec runs the operations of the two providers one at a time,            *)
(* SpecConcurrent runs two chat calls on one OpenRouterAPI at once,        *)
(* SpecRoleManager runs the operations of a RoleManager.                   *)
(*                                                                         *)
(* Python values are tagged records, so that None, numbers, NaN, strings,  *)
(* lists and dicts can be told apart the way the interpreter tells them    *)
(* apart.  Temperatures are counted in tenths (2.0 is 20), delays in       *)
(* milliseconds (1.0 s is 1000).                                           *)
(***************************************************************************)
EXTENDS Integers, Sequences, FiniteSets, TLC

\* ------------------------------------------------------------------------
\* Python / JSON values
\* ------------------------------------------------------------------------
None == [type |-> "None"]
NaN == [type |-> "nan"]
Num(n) == [type |-> "number", n |-> n]
Str(s) == [type |-> "str", s |-> s]
List(q) == [type |-> "list", a |-> q]
Dict(f) == [type |-> "dict", o |-> f]
EmptyDict == [type |-> "dict", o |-> <<>>]
Bool(b) == [type |-> "bool", b |-> b]

\* Order in which the keys of the modelled documents appear (a dict built by
\* json keeps document order; str() prints in that order).
KeyOrder == <<"error", "message", "code", "detail", "choices", "content">>

\* bool(v): the truth value Python gives to v.
Truthy(v) ==
    CASE v.type = "None" -> FALSE
      [] v.type = "nan" -> TRUE
      [] v.type = "number" -> v.n # 0
      [] v.type = "str" -> v.s # ""
      [] v.type = "list" -> Len(v.a) > 0
      [] v.type = "dict" -> DOMAIN v.o # {}
      [] v.type = "bool" -> v.b
      [] OTHER -> TRUE

\* a < b on Python floats/ints: every comparison with NaN is false.
Lt(a, b) == a.type = "number" /\ b.type = "number" /\ a.n < b.n

\* builtin min(a, b): a unless b < a.  builtin max(a, b): a unless b > a.
PyMin(a, b) == IF Lt(b, a) THEN b ELSE a
PyMax(a, b) == IF Lt(a, b) THEN b ELSE a

RECURSIVE PyRepr(_)
RECURSIVE ReprItems(_, _, _)
\* The "'k': v" items of dict o for the keys KeyOrder[i..], comma separated.
ReprItems(o, i, first) ==
    IF i > Len(KeyOrder) THEN ""
    ELSE IF KeyOrder[i] \in DOMAIN o
         THEN (IF first THEN "" ELSE ", ") \o "'" \o KeyOrder[i] \o "': "
              \o PyRepr(o[KeyOrder[i]]) \o ReprItems(o, i + 1, FALSE)
         ELSE ReprItems(o, i + 1, first)
\* repr(v)
PyRepr(v) ==
    CASE v.type = "None" -> "None"
      [] v.type = "nan" -> "nan"
      [] v.type = "number" -> ToString(v.n)
      [] v.type = "str" -> "'" \o v.s \o "'"
      [] v.type = "list" -> IF Len(v.a) = 0 THEN "[]" ELSE "[" \o PyRepr(v.a[1]) \o "]"
      [] v.type = "dict" -> "{" \o ReprItems(v.o, 1, TRUE) \o "}"
      [] v.type = "bool" -> IF v.b THEN "True" ELSE "False"
\* str(v): a str is itself, anything else prints as its repr.
PyStr(v) == IF v.type = "str" THEN v.s ELSE PyRepr(v)

\* ------------------------------------------------------------------------
\* Error taxonomy (api_integration/__init__.py)
\* ------------------------------------------------------------------------
OpenRouterErrorKinds ==
    {"OpenRouterError", "ConfigurationError", "AuthenticationError",
     "APIError", "NetworkError", "ResponseError"}

\* OpenRouterError.__init__(message, status_code=None, error_data=None)
OpenRouterError(kind, message, status_code, error_data) ==
    [kind |-> kind,
     message |-> message,
     status_code |-> status_code,
     error_data |-> IF Truthy(error_data) THEN error_data ELSE EmptyDict]

\* An exception of a builtin class (AttributeError, TypeError, ...).
BuiltinError(kind, message) == [kind |-> kind, message |-> message]

IsOpenRouterError(e) == e.kind \in OpenRouterErrorKinds

\* What a call yields: a returned value or a raised exception.
Returned(v) == [raised |-> FALSE, value |-> v]
Raised(e) == [raised |-> TRUE, exc |-> e]

\* HTTPStatus
HTTP_OK == 200
HTTP_UNAUTHORIZED == 401
HTTP_PAYMENT_REQUIRED == 402
HTTP_TOO_MANY_REQUESTS == 429

\* ------------------------------------------------------------------------
\* OpenRouterConfig (api_integration/__init__.py)
\* ------------------------------------------------------------------------
DEFAULT_MODEL == "openai/gpt-4"
DEFAULT_TEMPERATURE == Num(7)
DEFAULT_MAX_TOKENS == 2000
RETRY_DELAY == 1000
MIN_TEMPERATURE == Num(0)
MAX_TEMPERATURE == Num(20)
MIN_MAX_TOKENS == 1
MAX_MAX_TOKENS == 32000

\* validate_temperature(temp) = max(min(temp, MAX_TEMPERATURE), MIN_TEMPERATURE)
validate_temperature(temp) == PyMax(PyMin(temp, MAX_TEMPERATURE), MIN_TEMPERATURE)

\* validate_max_tokens(tokens): raises unless MIN_MAX_TOKENS <= tokens <= MAX_MAX_TOKENS
validate_max_tokens_exclusive(tokens) ==
    IF ~(MIN_MAX_TOKENS < tokens.n /\ tokens.n <= MAX_MAX_TOKENS)
    THEN Raised(OpenRouterError("ConfigurationError",
             "max_tokens must be between " \o ToString(MIN_MAX_TOKENS) \o " and "
             \o ToString(MAX_MAX_TOKENS), None, None))
    ELSE Returned(tokens)
validate_max_tokens(tokens) ==
    IF ~(MIN_MAX_TOKENS <= tokens.n /\ tokens.n <= MAX_MAX_TOKENS)
    THEN Raised(OpenRouterError("ConfigurationError",
             "max_tokens must be between " \o ToString(MIN_MAX_TOKENS) \o " and "
             \o ToString(MAX_MAX_TOKENS), None, None))
    ELSE Returned(tokens)

\* ------------------------------------------------------------------------
\* Python operations used by OpenRouterAPI
\* ------------------------------------------------------------------------
TypeName(v) ==
    CASE v.type = "None" -> "NoneType"
      [] v.type = "nan" -> "float"
      [] v.type = "number" -> "int"
      [] OTHER -> v.type

\* v.get(key, default): only a dict has the method.
DictGet(v, key, default) ==
    IF v.type # "dict"
    THEN Raised(BuiltinError("AttributeError",
             "'" \o TypeName(v) \o "' object has no attribute 'get'"))
    ELSE Returned(IF key \in DOMAIN v.o THEN v.o[key] ELSE default)

\* v[key] for a str key, v[i] for a (0-based) int index i.
Subscript(v, key) ==
    CASE v.type = "dict" ->
            IF key.type = "str" /\ key.s \in DOMAIN v.o
            THEN Returned(v.o[key.s])
            ELSE Raised(BuiltinError("KeyError", PyRepr(key)))
      [] v.type = "list" ->
            IF key.type # "number"
            THEN Raised(BuiltinError("TypeError",
                     "list indices must be integers or slices, not str"))
            ELSE IF key.n < Len(v.a) /\ key.n >= 0 - Len(v.a)
                 THEN Returned(v.a[IF key.n >= 0 THEN key.n + 1 ELSE Len(v.a) + key.n + 1])
                 ELSE Raised(BuiltinError("IndexError", "list index out of range"))
      [] v.type = "str" ->
            IF key.type # "number"
            THEN Raised(BuiltinError("TypeError", "string indices must be integers"))
            ELSE IF v.s # "" /\ key.n = 0
                 THEN Returned(Str("c"))  \* a one-character str
                 ELSE Raised(BuiltinError("IndexError", "string index out of range"))
      [] OTHER ->
            Raised(BuiltinError("TypeError",
                "'" \o TypeName(v) \o "' object is not subscriptable"))

\* str(e) of an exception: its message (KeyError's message is already the
\* repr of the key).
ExcStr(e) == e.message

\* A format string is a sequence of segments: literal text or a replacement
\* field.  template.format(question=prompt)
Lit(s) == [seg |-> "lit", s |-> s]
Field(name) == [seg |-> "field", name |-> name]
RECURSIVE FormatFrom(_, _, _)
FormatFrom(segs, i, question) ==
    IF i > Len(segs) THEN Returned("")
    ELSE LET g == segs[i]
             rest == FormatFrom(segs, i + 1, question)
         IN  IF g.seg = "lit"
             THEN IF rest.raised THEN rest ELSE Returned(g.s \o rest.value)
             ELSE IF g.name = "question"
                  THEN IF rest.raised THEN rest
                       ELSE Returned(PyStr(question) \o rest.value)
                  ELSE IF g.name = ""
                       THEN Raised(BuiltinError("IndexError",
                                "Replacement index 0 out of range for positional args tuple"))
                       ELSE Raised(BuiltinError("KeyError", "'" \o g.name \o "'"))
Format_no_substitution(template, question) ==
    FormatFrom(template.segs, 1, Str("{question}"))
Format(template, question) == FormatFrom(template.segs, 1, question)

\* ------------------------------------------------------------------------
\* OpenRouterAPI (api_integration/openrouter_api.py)
\* ------------------------------------------------------------------------
\* An HTTP response: its status and what response.json() does on its body.
Response(status, body) == [ev |-> "response", status |-> status, body |-> body]
Json(v) == [parse |-> "ok", json |-> v]
NotJson(how) == [parse |-> how]

\* _handle_error_response(response): what it raises.
classify_error_max_retries(status, error_msg, error_data) ==
    IF status = HTTP_UNAUTHORIZED
    THEN OpenRouterError("AuthenticationError", "Invalid API key", Num(status), error_data)
    ELSE IF status = HTTP_PAYMENT_REQUIRED
    THEN OpenRouterError("APIError", "Insufficient credits", Num(status), error_data)
    ELSE IF status = HTTP_TOO_MANY_REQUESTS
    THEN OpenRouterError("APIError", "Max retries exceeded", None, None)
    ELSE OpenRouterError("APIError", "API request failed: " \o PyStr(error_msg),
                         Num(status), error_data)
classify_error_no_status(status, error_msg, error_data) ==
    IF status = HTTP_UNAUTHORIZED
    THEN OpenRouterError("AuthenticationError", "Invalid API key", Num(status), error_data)
    ELSE IF status = HTTP_PAYMENT_REQUIRED
    THEN OpenRouterError("APIError", "Insufficient credits", Num(status), error_data)
    ELSE IF status = HTTP_TOO_MANY_REQUESTS
    THEN OpenRouterError("APIError", "Rate limit exceeded", None, error_data)
    ELSE OpenRouterError("APIError", "API request failed: " \o PyStr(error_msg),
                         Num(status), error_data)
classify_error_no_payment_branch(status, error_msg, error_data) ==
    IF status = HTTP_UNAUTHORIZED
    THEN OpenRouterError("AuthenticationError", "Invalid API key", Num(status), error_data)
    ELSE IF status = HTTP_TOO_MANY_REQUESTS
    THEN OpenRouterError("APIError", "Rate limit exceeded", Num(status), error_data)
    ELSE OpenRouterError("APIError", "API request failed: " \o PyStr(error_msg),
                         Num(status), error_data)
classify_error(status, error_msg, error_data) ==
    IF status = HTTP_UNAUTHORIZED
    THEN OpenRouterError("AuthenticationError", "Invalid API key", Num(status), error_data)
    ELSE IF status = HTTP_PAYMENT_REQUIRED
    THEN OpenRouterError("APIError", "Insufficient credits", Num(status), error_data)
    ELSE IF status = HTTP_TOO_MANY_REQUESTS
    THEN OpenRouterError("APIError", "Rate limit exceeded", Num(status), error_data)
    ELSE OpenRouterError("APIError", "API request failed: " \o PyStr(error_msg),
                         Num(status), error_data)

handle_error_response(response) ==
    LET error_data == IF response.body.parse = "ok"
                      THEN response.body.json
                      ELSE Dict([error |-> Str("Unknown error")])
        err == DictGet(error_data, "error", EmptyDict)
    IN  IF err.raised THEN err
        ELSE LET msg == DictGet(err.value, "message", Str(PyStr(error_data)))
             IN  IF msg.raised THEN msg
                 ELSE Raised(classify_error(response.status, msg.value, error_data))

\* The test of line 110: the only status that is retried.
rate_limited_or_server_error(status) == status = HTTP_TOO_MANY_REQUESTS \/ status >= 500
rate_limited(status) == status = HTTP_TOO_MANY_REQUESTS

\* The test of line 112, made on the counter after it was decremented.
may_retry_always(retries) == TRUE
may_retry(retries) == retries > 0

\* The argument of asyncio.sleep at line 113.
sleep_delay_growing(retries) == RETRY_DELAY * retries
sleep_delay(retries) == RETRY_DELAY

\* The except clauses of call_api: a transport failure or a timeout of the
\* request.  next = "return" / "raise" end the call, next = "sleep" is
\* asyncio.sleep(delay) followed by `continue`.
on_transport_failure_retried(retries, event) ==
    IF retries - 1 > 0
    THEN [next |-> "sleep", retries |-> retries - 1, delay |-> RETRY_DELAY]
    ELSE [next |-> "raise", retries |-> retries - 1,
          res |-> Raised(OpenRouterError("NetworkError", "Request timed out", None, None))]
on_transport_failure(retries, event) ==
    IF event.ev = "ClientError"
    THEN [next |-> "raise", retries |-> retries,
          res |-> Raised(OpenRouterError("NetworkError",
                     "Network request failed: " \o event.text, None, None))]
    ELSE [next |-> "raise", retries |-> retries,
          res |-> Raised(OpenRouterError("NetworkError", "Request timed out", None, None))]

\* return await response.json() at line 107; aiohttp's ContentTypeError is a
\* ClientError, json's JSONDecodeError is not.
on_status_ok(retries, event) ==
    IF event.body.parse = "ok"
    THEN [next |-> "return", retries |-> retries, res |-> Returned(event.body.json)]
    ELSE IF event.body.parse = "ContentTypeError"
    THEN on_transport_failure(retries,
             [ev |-> "ClientError", text |-> "Attempt to decode JSON with unexpected mimetype"])
    ELSE [next |-> "raise", retries |-> retries,
          res |-> Raised(BuiltinError("JSONDecodeError", "Expecting value"))]

\* One iteration of the retry loop of call_api, entered with `retries` > 0,
\* for the event the request ends with.
call_api_iteration(retries, event) ==
    IF event.ev # "response"
    THEN on_transport_failure(retries, event)
    ELSE IF event.status = HTTP_OK
    THEN on_status_ok(retries, event)
    ELSE IF rate_limited(event.status)
    THEN IF may_retry(retries - 1)
         THEN [next |-> "sleep", retries |-> retries - 1, delay |-> sleep_delay(retries - 1)]
         ELSE [next |-> "raise", retries |-> retries - 1,
               res |-> handle_error_response(event)]
    ELSE [next |-> "raise", retries |-> retries, res |-> handle_error_response(event)]

\* call_api when the loop is not entered or is left with retries = 0.
call_api_exhausted == Raised(OpenRouterError("APIError", "Max retries exceeded", None, None))

\* format_response(raw_response)
format_response(raw_response) ==
    LET c == Subscript(raw_response, Str("choices"))
        f == IF c.raised THEN c ELSE Subscript(c.value, Num(0))
        m == IF f.raised THEN f ELSE Subscript(f.value, Str("message"))
        t == IF m.raised THEN m ELSE Subscript(m.value, Str("content"))
    IN  IF t.raised /\ t.exc.kind \in {"KeyError", "IndexError"}
        THEN Raised(OpenRouterError("ResponseError",
                 "Invalid response format: " \o ExcStr(t.exc), None, None))
        ELSE t

\* The part of chat_completion before the request: the payload `data`, or
\* the exception raised while building it.  kwargs is a function from
\* parameter names to values.
chat_completion_data(messages, temperature, max_tokens, kwargs) ==
    IF ~Truthy(messages)
    THEN Raised(OpenRouterError("ConfigurationError", "Messages cannot be empty", None, None))
    ELSE LET temp == IF temperature # None THEN validate_temperature(temperature)
                     ELSE DEFAULT_TEMPERATURE
             toks == IF max_tokens # None THEN validate_max_tokens(max_tokens)
                     ELSE Returned(Num(DEFAULT_MAX_TOKENS))
         IN  IF toks.raised THEN toks
             ELSE Returned(
                    [k \in {n \in DOMAIN kwargs : kwargs[n] # None} |-> kwargs[k]]
                    @@ [model |-> Str(DEFAULT_MODEL), messages |-> messages,
                        temperature |-> temp, max_tokens |-> toks.value])

\* except OpenRouterError: raise / except Exception as e: raise APIError(...)
except_clause_wraps_all(prefix, res) ==
    IF res.raised
    THEN Raised(OpenRouterError("APIError", prefix \o ExcStr(res.exc), None, None))
    ELSE res
except_clause(prefix, res) ==
    IF res.raised /\ ~IsOpenRouterError(res.exc)
    THEN Raised(OpenRouterError("APIError", prefix \o ExcStr(res.exc), None, None))
    ELSE res

\* Binding of **kwargs to the parameters of chat_completion.
KwArg(kwargs, name) == IF name \in DOMAIN kwargs THEN kwargs[name] ELSE None
OtherKwargs(kwargs) ==
    [k \in DOMAIN kwargs \ {"temperature", "max_tokens"} |-> kwargs[k]]

\* The part of chat before chat_completion is called: the arguments of that
\* call, or the exception raised on the way.
Message(role, content) == Dict([role |-> Str(role), content |-> Str(content)])
GetAttr(obj, class, name) ==
    IF obj.type = class THEN Returned(obj.attrs[name])
    ELSE Raised(BuiltinError("AttributeError",
             "'" \o TypeName(obj) \o "' object has no attribute '" \o name \o "'"))

chat_arguments(prompt, role, kwargs) ==
    IF ~Truthy(prompt) \/ ~Truthy(role)
    THEN Raised(OpenRouterError("ConfigurationError", "Prompt and role are required", None, None))
    ELSE LET rc == role.role_config
             name == GetAttr(rc, "RoleConfig", "name")
             user == IF name.raised THEN name
                     ELSE Format(rc.attrs.prompt_template, prompt)
         IN  IF name.raised THEN name
             ELSE IF user.raised THEN user
             ELSE IF DOMAIN kwargs \cap {"messages", "temperature", "max_tokens"} # {}
             THEN Raised(BuiltinError("TypeError",
                      "chat_completion() got multiple values for keyword argument"))
             ELSE Returned(
                    [messages |-> List(<<
                         Message("system", "You are " \o PyStr(rc.attrs.name)
                                           \o " " \o PyStr(rc.attrs.description)),
                         Message("user", user.value)>>),
                     temperature |-> rc.attrs.temperature,
                     max_tokens |-> rc.attrs.max_tokens,
                     kwargs |-> kwargs])

\* query: except Exception as e: raise APIError(f"Query failed: {str(e)}")
query_except(res) ==
    IF res.raised
    THEN Raised(OpenRouterError("APIError", "Query failed: " \o ExcStr(res.exc), None, None))
    ELSE res

\* health_check: return True after the probe, except Exception: return False
health_check_reraises(res) == IF res.raised THEN res ELSE Returned(Bool(TRUE))
health_check_result(res) == Returned(Bool(~res.raised))

\* What an operation does with the value the call it awaited returned, inside
\* its try block: chat and query hand it to format_response.
Continue(frame, res) ==
    IF frame \in {"chat", "query"} /\ ~res.raised
    THEN format_response(res.value)
    ELSE res

\* The except clauses of the operation.
Handle(frame, res) ==
    CASE frame = "chat_completion" -> except_clause("Chat completion failed: ", res)
      [] frame = "chat" -> except_clause("Chat failed: ", res)
      [] frame = "query" -> query_except(res)
      [] frame = "health_check" -> health_check_result(res)
      [] OTHER -> res

\* Leaving the frame of an operation with the result of the call it made.
Leave(frame, res) == Handle(frame, Continue(frame, res))

\* The exception first raised while the result res travels up the frames,
\* before any except clause has replaced it; None when nothing is raised.
RECURSIVE FirstRaised(_, _)
FirstRaised(frames, res) ==
    IF res.raised THEN res.exc
    ELSE IF frames = <<>> THEN None
    ELSE FirstRaised(Tail(frames), Continue(Head(frames), res))

\* The result the outermost caller sees: frames lists the operations that
\* are on the stack around call_api, innermost first.
RECURSIVE Unwind(_, _)
Unwind(frames, res) ==
    IF frames = <<>> THEN res ELSE Unwind(Tail(frames), Leave(Head(frames), res))

\* ------------------------------------------------------------------------
\* Construction of OpenRouterAPI (openrouter_api.py, api_abstract.py)
\* ------------------------------------------------------------------------
BASE_URL == "https://openrouter.ai/api/v1"
DEFAULT_TIMEOUT == 30
SITE_URL == None
SITE_NAME == None

\* a or b
Or(a, b) == IF Truthy(a) THEN a ELSE b
\* s.startswith(prefix)
StartsWith(s, prefix) == Len(s) >= Len(prefix) /\ SubSeq(s, 1, Len(prefix)) = prefix

\* The dataclass OpenRouterConfig(ApiConfig)
OpenRouterConfig(base_url, api_key, model, timeout, http_referer, x_title) ==
    [type |-> "OpenRouterConfig",
     attrs |-> [base_url |-> base_url, api_key |-> api_key, model |-> model,
                timeout |-> timeout, http_referer |-> http_referer, x_title |-> x_title]]

\* Config.validate_api_key(api_key)
validate_api_key_any_format(api_key) ==
    IF ~Truthy(api_key)
    THEN Raised(OpenRouterError("ConfigurationError", "OpenRouter API key not found",
                                None, None))
    ELSE Returned(api_key)
validate_api_key(api_key) ==
    IF ~Truthy(api_key)
    THEN Raised(OpenRouterError("ConfigurationError", "OpenRouter API key not found",
                                None, None))
    ELSE IF api_key.type # "str"
    THEN Raised(BuiltinError("AttributeError",
             "'" \o TypeName(api_key) \o "' object has no attribute 'startswith'"))
    ELSE IF ~(StartsWith(api_key.s, "sk-or-") \/ StartsWith(api_key.s, "sk-"))
    THEN Raised(OpenRouterError("ConfigurationError", "Invalid OpenRouter API key format",
                                None, None))
    ELSE Returned(api_key)

\* _build_headers() on the instance self_
build_headers(self_) ==
    Dict([k \in {"Authorization", "Content-Type"}
                \cup (IF Truthy(self_.http_referer) THEN {"HTTP-Referer"} ELSE {})
                \cup (IF Truthy(self_.x_title) THEN {"X-Title"} ELSE {}) |->
            CASE k = "Authorization" -> Str("Bearer " \o PyStr(self_.api_key))
              [] k = "Content-Type" -> Str("application/json")
              [] k = "HTTP-Referer" -> self_.http_referer
              [] k = "X-Title" -> self_.x_title])

\* OpenRouterAPI.__init__(config, api_name) with Config.API_KEY = env_key: the
\* instance, or the ConfigurationError every failure is turned into.
\* headers_built counts the calls of _build_headers on the instance.
OpenRouterAPI_init(config_, env_key, api_name) ==
    LET model == GetAttr(config_, "OpenRouterConfig", "model")
        key == IF model.raised THEN model
               ELSE validate_api_key(Or(config_.attrs.api_key, env_key))
    IN  IF key.raised
        THEN Raised(OpenRouterError("ConfigurationError",
                 "Failed to initialize OpenRouter API: " \o ExcStr(key.exc), None, None))
        ELSE LET self_ == [type |-> "OpenRouterAPI",
                           api_name |-> api_name,
                           config |-> config_,
                           model |-> Or(model.value, Str(DEFAULT_MODEL)),
                           api_key |-> key.value,
                           timeout |-> Or(config_.attrs.timeout, Num(DEFAULT_TIMEOUT)),
                           base_url |-> Or(config_.attrs.base_url, Str(BASE_URL)),
                           http_referer |-> Or(config_.attrs.http_referer, SITE_URL),
                           x_title |-> Or(config_.attrs.x_title, SITE_NAME)]
             IN  Returned(self_ @@ [headers |-> build_headers(self_), headers_built |-> 1])

\* What call_api does to the instance when it opens a session for a request:
\* it reads self.headers, self.base_url and self.timeout and assigns nothing.
self_after_request_rebuilding(self_) ==
    [self_ EXCEPT !.headers = build_headers(self_), !.headers_built = @ + 1]
self_after_request(self_) == self_

\* ------------------------------------------------------------------------
\* DeepSeekAPI (api_integration/deepseek_api.py)
\* ------------------------------------------------------------------------
DEEPSEEK_MODEL == "deepseek-chat"
DEEPSEEK_DEFAULT_TEMPERATURE == Num(7)
DEEPSEEK_DEFAULT_MAX_TOKENS == 2000

\* call_api: one HTTP exchange, for the event the request ends with.  Only
\* aiohttp.ClientError is caught; every failure is a plain Exception or the
\* exception the library raised.
deepseek_call_api(event) ==
    IF event.ev = "ClientError"
    THEN Raised(BuiltinError("Exception", "Network request failed: " \o event.text))
    ELSE IF event.ev = "TimeoutError"
    THEN Raised(BuiltinError("TimeoutError", ""))
    ELSE IF event.body.parse = "ContentTypeError"
    THEN Raised(BuiltinError("Exception",
             "Network request failed: Attempt to decode JSON with unexpected mimetype"))
    ELSE IF event.body.parse = "JSONDecodeError"
    THEN Raised(BuiltinError("JSONDecodeError", "Expecting value"))
    ELSE IF event.status = HTTP_OK
    THEN Returned(event.body.json)
    ELSE LET err == DictGet(event.body.json, "error", Str("Unknown error"))
         IN  IF err.raised THEN err
             ELSE Raised(BuiltinError("Exception",
                      "API call failed: " \o ToString(event.status) \o " - "
                      \o PyStr(err.value)))

\* format_response(raw_response) of DeepSeekAPI
deepseek_format_response(raw_response) ==
    LET c == Subscript(raw_response, Str("choices"))
        f == IF c.raised THEN c ELSE Subscript(c.value, Num(0))
        m == IF f.raised THEN f ELSE Subscript(f.value, Str("message"))
        t == IF m.raised THEN m ELSE Subscript(m.value, Str("content"))
    IN  IF t.raised /\ t.exc.kind \in {"KeyError", "IndexError"}
        THEN Raised(BuiltinError("Exception", "Invalid response format"))
        ELSE t

\* The payload chat_completion builds (stream = False).  kwargs is a function
\* from parameter names to values.
deepseek_chat_completion_data(messages, temperature, max_tokens, kwargs) ==
    [k \in {n \in DOMAIN kwargs : kwargs[n] # None} |-> kwargs[k]]
    @@ [model |-> Str(DEEPSEEK_MODEL), messages |-> messages,
        temperature |-> PyMin(PyMax(IF Truthy(temperature) THEN temperature
                                    ELSE DEEPSEEK_DEFAULT_TEMPERATURE, Num(0)), Num(20)),
        stream |-> Bool(FALSE),
        max_tokens |-> IF max_tokens # None THEN max_tokens
                       ELSE Num(DEEPSEEK_DEFAULT_MAX_TOKENS)]

\* The part of chat before chat_completion is called: the arguments of that
\* call, or the exception raised on the way.  The overrides of the caller
\* are handed on as the one keyword argument named kwargs.
deepseek_chat_arguments(prompt, role, kwargs) ==
    IF role.type # "Agent"
    THEN Raised(BuiltinError("AttributeError",
             "'" \o TypeName(role) \o "' object has no attribute 'role_config'"))
    ELSE LET rc == role.role_config
             name == GetAttr(rc, "RoleConfig", "name")
             user == IF name.raised THEN name
                     ELSE Format(rc.attrs.prompt_template, prompt)
         IN  IF name.raised THEN name
             ELSE IF user.raised THEN user
             ELSE Returned(
                    [messages |-> List(<<
                         Message("system", "You are " \o PyStr(rc.attrs.name)
                                           \o " " \o PyStr(rc.attrs.description)),
                         Message("user", user.value)>>),
                     temperature |-> rc.attrs.temperature,
                     max_tokens |-> rc.attrs.max_tokens,
                     kwargs |-> [kwargs |-> Dict(kwargs)]])

\* health_check of DeepSeekAPI: True after the probe, except Exception: False
deepseek_health_check_result(res) == Returned(Bool(~res.raised))

\* ------------------------------------------------------------------------
\* Inputs: what callers pass and what the backend answers
\* ------------------------------------------------------------------------
MaxRetriesRange == 3

Statuses == {200, 400, 401, 402, 429, 500, 503}

ErrorBodies ==
    {Json(Dict([error |-> Dict([message |-> Str("quota")])])),
     Json(Dict([error |-> Dict([code |-> Num(7)])])),
     Json(Dict([detail |-> Str("denied")])),
     Json(EmptyDict),
     Json(Dict([error |-> Str("denied")])),
     Json(Dict([error |-> None])),
     Json(List(<<>>)),
     NotJson("ContentTypeError"),
     NotJson("JSONDecodeError")}

Completion(content) ==
    Dict([choices |-> List(<<Dict([message |-> Dict([content |-> content])])>>)])

OkBodies ==
    {Json(Completion(Str("hello"))),
     Json(Dict([error |-> Dict([message |-> Str("quota")])])),
     Json(Dict([choices |-> List(<<>>)])),
     Json(Dict([choices |-> None])),
     NotJson("ContentTypeError"),
     NotJson("JSONDecodeError")}

Events ==
    {Response(st, b) : st \in Statuses \ {HTTP_OK}, b \in ErrorBodies}
    \cup {Response(HTTP_OK, b) : b \in OkBodies}
    \cup {[ev |-> "ClientError", text |-> "Cannot connect to host"],
          [ev |-> "TimeoutError"]}

TemperatureInputs == {None, NaN, Num(-5), Num(0), Num(7), Num(20), Num(21)}
MaxTokensInputs == {None, Num(-1), Num(0), Num(1), Num(2000), Num(32000), Num(32001)}
MessagesInputs == {List(<<>>), List(<<Message("user", "hi")>>)}

Template(segs) == [type |-> "str", segs |-> segs]
RoleConfig(name, description, api_type, prompt_template, concurrent, temperature, max_tokens) ==
    [type |-> "RoleConfig",
     attrs |-> [name |-> Str(name), description |-> Str(description),
                api_type |-> Str(api_type), prompt_template |-> prompt_template,
                concurrent |-> Bool(concurrent),
                temperature |-> temperature, max_tokens |-> max_tokens]]
Agent(role_config) == [type |-> "Agent", role_config |-> role_config]

QuestionTemplate == Template(<<Lit("Question: "), Field("question")>>)
RoleInputs ==
    {None,
     Agent(RoleConfig("Analyst", "reviews data", "openrouter", QuestionTemplate, FALSE,
                      Num(3), Num(500))),
     Agent(RoleConfig("Analyst", "reviews data", "openrouter", QuestionTemplate, FALSE,
                      None, Num(0))),
     Agent(RoleConfig("Critic", "finds flaws", "openrouter",
                      Template(<<Lit("Topic: "), Field("topic")>>), TRUE, Num(25), None)),
     Agent(Dict([name |-> Str("Analyst")]))}
PromptInputs == {Str(""), Str("What is X?")}
KwargsInputs == {<<>>, [temperature |-> Num(5)], [top_p |-> Num(1)]}

\* Raw responses handed to format_response.
RawResponses ==
    {Completion(Str("hello")),
     Completion(None),
     Dict([error |-> Dict([message |-> Str("quota")])]),
     Dict([choices |-> List(<<>>)]),
     Dict([choices |-> None]),
     Dict([choices |-> Str("hello")]),
     Dict([choices |-> EmptyDict]),
     Dict([choices |-> List(<<None>>)]),
     Dict([choices |-> List(<<Dict([detail |-> Str("stop")])>>)]),
     Dict([choices |-> List(<<Dict([message |-> None])>>)]),
     Dict([choices |-> List(<<Dict([message |-> Str("hello")])>>)]),
     Dict([choices |-> List(<<Dict([message |-> Dict([detail |-> Str("stop")])])>>)])}

Callers == {1, 2}

\* TavilyAPI: the arguments of search and extract and what the backend
\* does with a request.
MaxResultsInputs == {Num(-1), Num(0), Num(1), Num(5), Num(19), Num(20), Num(21)}
DaysInputs == {None, Num(-1), Num(0), Num(1), Num(7)}
TimeRangeInputs == {None, Str("week")}
UrlsInputs == {Str("https://example.com"), List(<<Str("https://example.com")>>)}
TavilyEvents ==
    {Response(HTTP_OK, Json(Dict([results |-> List(<<>>)]))),
     Response(HTTP_OK, NotJson("JSONDecodeError")),
     Response(HTTP_TOO_MANY_REQUESTS, Json(Dict([detail |-> Str("denied")]))),
     Response(HTTP_UNAUTHORIZED, NotJson("ContentTypeError")),
     [ev |-> "ClientError", text |-> "Cannot connect to host"],
     [ev |-> "TimeoutError"]}

\* TokenizerService: the names and classes registered, the names looked up,
\* the model_dir arguments, and how many calls of a tokenizer class a run makes.
MaxConstructed == 3
TokenizerNames == {"deepseek", "mock"}
TokenizerLookups == TokenizerNames \cup {"invalid"}
TokenizerClasses == {"DeepSeekTokenizer", "MockTokenizer", "WordTokenizer"}
ModelDirs == {None, Str("models/deepseek")}

\* ApiManager: the instances of the class, the names and providers handed to
\* add_api, the names looked up, and how many add_api calls are recorded.
MaxAdds == 2
Managers == {1, 2}
ApiNames == {"openrouter", "deepseek"}
LookupNames == ApiNames \cup {"ghost"}
ProviderInputs == {[type |-> "APIBase", api_name |-> n, oid |-> k] : n \in ApiNames, k \in 1..2}
\* OPENROUTER_API_KEY in the environment: unset, or a key.
EnvApiKeys == {None, Str("sk-env-key")}
\* What ConfigLoader.config holds under "openrouter".
RawConfigs ==
    {Dict([api_key |-> Str("sk-or-v1-abc")]),
     Dict([api_key |-> Str("bad-key")]),
     Dict([api_key |-> Str("")]),
     Dict([model |-> Str("openai/gpt-4-turbo")]),
     Str("oops")}
\* What the configuration directory holds: no file, a file that is not
\* JSON, a JSON file with an "openrouter" entry.
ConfigFiles ==
    {[state |-> "none"], [state |-> "unparseable"]}
    \cup {[state |-> "json", content |-> Dict([openrouter |-> v])] : v \in RawConfigs}

\* The config objects OpenRouterAPI is constructed with.
ApiKeyInputs ==
    {None, Str(""), Str("sk"), Str("sk-abc"), Str("sk-or-v1-abc"), Str("bad-key"), Num(7)}
ProviderConfigs ==
    {None} \cup {OpenRouterConfig(None, k, None, None, None, None) : k \in ApiKeyInputs}

\* The OpenRouterAPI instance whose operations Spec runs.
ProviderOfSpec ==
    OpenRouterAPI_init(OpenRouterConfig(None, Str("sk-or-v1-abc"), None, None,
                                        Str("https://deepcision.example"), None),
                       None, "openrouter").value

\* Role manager: the Agent objects a run creates and the terminate() calls
\* counted per Agent are bounded.
MaxAgents == 2
MaxTerminate == 2
RoleNames == {"Analyst", "Ghost"}
AgentIds == {"a1", "a2"}
\* One entry of the role template file, as json.load returns it.
RoleEntry ==
    Dict([name |-> Str("Analyst"), description |-> Str("reviews data"),
          api_type |-> Str("openrouter"), prompt_template |-> Str("Question: {question}"),
          concurrent |-> Bool(FALSE), temperature |-> Num(3), max_tokens |-> Num(500)])
\* What can be at template_path: nothing, a file that is not JSON, a JSON
\* mapping of role name -> role entry.
TemplateFiles ==
    {[state |-> "missing"],
     [state |-> "unreadable"],
     [state |-> "unparseable"],
     [state |-> "json", content |-> Dict([Analyst |-> RoleEntry])]}
\* The Agents two callers share: one that may not be used concurrently and
\* one that may.
SharedAgents ==
    {Agent(RoleConfig("Analyst", "reviews data", "openrouter", QuestionTemplate, FALSE,
                      Num(3), Num(500))),
     Agent(RoleConfig("Scout", "collects sources", "openrouter", QuestionTemplate, TRUE,
                      Num(3), Num(500)))}
\* What the backend answers while two calls are under way.
ConcurrentEvents ==
    {Response(HTTP_OK, Json(Completion(Str("hello")))),
     Response(HTTP_TOO_MANY_REQUESTS, Json(Dict([error |-> Dict([message |-> Str("quota")])]))),
     [ev |-> "TimeoutError"]}

\* ------------------------------------------------------------------------
\* State
\* ------------------------------------------------------------------------
VARIABLES
    MAX_RETRIES,  \* Config.MAX_RETRIES, read from the environment at import
    pc,           \* "idle", "request" (a request is in flight), "sleep", "done"
    args,         \* the operation the caller invoked, with its arguments
    frames,       \* the operations on the stack around call_api, innermost first
    data,         \* the payload handed to call_api
    retries,      \* call_api's local counter
    requests,     \* HTTP requests issued by the operation so far
    sleeps,       \* the delays of the asyncio.sleep calls made so far
    hist,         \* how each request ended: its status, or the exception name
    last,         \* the event that ended call_api
    inner,        \* what call_api itself returned or raised
    result,       \* what the operation returned or raised to its caller
    origin,       \* the exception first raised inside the operation (None: none)
    provider      \* the attributes of the OpenRouterAPI instance (self)

\* DeepSeekAPI: the operation in progress on the DeepSeek provider.
VARIABLES ds_pc, ds_args, ds_data, ds_requests, ds_last, ds_result

\* RoleManager
VARIABLES
    template_file,  \* what is at template_path
    roles,          \* RoleManager.roles
    active_roles,   \* RoleManager.active_roles: agent id -> Agent (index in agents)
    agents,         \* the Agent objects created so far
    terminated,     \* how many times terminate() was called on each Agent
    rm_last         \* the last RoleManager operation: its argument, what it
                    \* returned and the manager's state when it was called

\* Two callers using one OpenRouterAPI at the same time.
VARIABLES
    shared_agent,   \* the Agent both callers pass to chat
    calls           \* the chat call of each caller

\* ApiManager, the ConfigLoader it reads and the environment
VARIABLES
    API_KEY,        \* OpenRouterConfig.API_KEY, read from the environment
    config,         \* ConfigLoader.config
    apis,           \* ApiManager.apis, the class attribute: name -> provider
    added,          \* the providers handed to add_api, in call order
    added_by,       \* the manager the last of them was handed to (0: none yet)
    am_last         \* the last ApiManager operation: its argument, what it
                    \* returned and the registry when it was called

\* TokenizerService
VARIABLES
    tokenizer_classes,  \* _tokenizer_classes: name -> tokenizer class
    tokenizers,         \* _tokenizers: name -> cached instance
    constructed,        \* how many times a tokenizer class was called
    tk_last             \* the last TokenizerService operation

\* TavilyAPI
VARIABLES
    tv_pc,          \* "idle", or "done" when search / extract has ended
    tv_args,        \* the operation and its arguments
    tv_sent,        \* the requests posted: endpoint and JSON data of each
    tv_result       \* what the operation returned or raised

\* Deepcision (main.py) and the components it starts
VARIABLES
    config_files,   \* what the configuration directory holds
    cl_initialized, \* ConfigLoader.initialized
    re_initialized, \* ReasoningEngine.initialized
    dc_last         \* the last operation of Deepcision: the stages it
                    \* started, what each gave and what it returned

api_vars == <<MAX_RETRIES, provider, pc, args, frames, data, retries, requests, sleeps,
              hist, last, inner, result, origin>>
ds_vars == <<ds_pc, ds_args, ds_data, ds_requests, ds_last, ds_result>>
rm_vars == <<template_file, roles, active_roles, agents, terminated, rm_last>>
cc_vars == <<shared_agent, calls>>
am_vars == <<API_KEY, config, apis, added, added_by, am_last>>
tk_vars == <<tokenizer_classes, tokenizers, constructed, tk_last>>
tv_vars == <<tv_pc, tv_args, tv_sent, tv_result>>
dc_vars == <<config_files, cl_initialized, re_initialized, dc_last>>
vars == <<api_vars, ds_vars, rm_vars, cc_vars, am_vars, tk_vars, tv_vars, dc_vars>>
\* What an operation of OpenRouterAPI, of DeepSeekAPI, of RoleManager, of the
\* concurrent callers, of ApiManager, of TokenizerService leaves alone.
outside_api == <<ds_vars, rm_vars, cc_vars, am_vars, tk_vars, tv_vars, dc_vars>>
outside_ds == <<api_vars, rm_vars, cc_vars, am_vars, tk_vars, tv_vars, dc_vars>>
outside_rm == <<api_vars, ds_vars, cc_vars, am_vars, tk_vars, tv_vars, dc_vars>>
outside_cc == <<api_vars, ds_vars, rm_vars, am_vars, tk_vars, tv_vars, dc_vars>>
outside_am == <<api_vars, ds_vars, rm_vars, cc_vars, tk_vars, tv_vars, dc_vars>>
outside_tk == <<api_vars, ds_vars, rm_vars, cc_vars, am_vars, tv_vars, dc_vars>>
outside_tv == <<api_vars, ds_vars, rm_vars, cc_vars, am_vars, tk_vars, dc_vars>>

NoArgs == [op |-> "none"]
Nothing == [raised |-> FALSE, value |-> None, pending |-> TRUE]
NoCall == [pc |-> "idle", retries |-> 0, requests |-> 0, hist |-> <<>>,
           result |-> Nothing]

Init ==
    /\ MAX_RETRIES \in 0..MaxRetriesRange
    /\ pc = "idle"
    /\ args = NoArgs
    /\ frames = <<>>
    /\ data = None
    /\ retries = 0
    /\ requests = 0
    /\ sleeps = <<>>
    /\ hist = <<>>
    /\ last = None
    /\ inner = Nothing
    /\ result = Nothing
    /\ origin = None
    /\ ds_pc = "idle"
    /\ ds_args = NoArgs
    /\ ds_data = None
    /\ ds_requests = 0
    /\ ds_last = None
    /\ ds_result = Nothing
    /\ template_file = [state |-> "missing"]
    /\ roles = EmptyDict
    /\ active_roles = <<>>
    /\ agents = <<>>
    /\ terminated = [k \in 1..MaxAgents |-> 0]
    /\ rm_last = NoArgs
    /\ shared_agent = None
    /\ calls = [c \in Callers |-> NoCall]
    /\ provider = ProviderOfSpec
    /\ API_KEY \in EnvApiKeys
    /\ config = EmptyDict
    /\ apis = <<>>
    /\ added = <<>>
    /\ added_by = 0
    /\ am_last = NoArgs
    /\ tokenizer_classes = [deepseek |-> "DeepSeekTokenizer"]
    /\ tokenizers = <<>>
    /\ constructed = 0
    /\ tk_last = NoArgs
    /\ tv_pc = "idle"
    /\ tv_args = NoArgs
    /\ tv_sent = <<>>
    /\ tv_result = Nothing
    /\ config_files = [state |-> "none"]
    /\ cl_initialized = FALSE
    /\ re_initialized = FALSE
    /\ dc_last = NoArgs

\* The same start with OPENROUTER_MAX_RETRIES unset: the retry budget is its
\* default.  No operation of ApiManager or Deepcision reads it.
DEFAULT_MAX_RETRIES == 3
InitComponents == Init /\ MAX_RETRIES = DEFAULT_MAX_RETRIES

\* The operation ends before call_api is reached, with `res` raised inside
\* the frames fr.
EndEarly(a, fr, res) ==
    /\ args' = a
    /\ frames' = fr
    /\ pc' = "done"
    /\ result' = Unwind(fr, res)
    /\ origin' = FirstRaised(fr, res)
    /\ UNCHANGED <<MAX_RETRIES, data, retries, requests, sleeps, hist, last, inner>>
    /\ UNCHANGED <<provider, outside_api>>

\* call_api(endpoint, method, data), lines 99-102: the counter is set and the
\* loop condition tested for the first time.
EnterCallApi(a, fr, d) ==
    /\ args' = a
    /\ frames' = fr
    /\ data' = d
    /\ retries' = MAX_RETRIES
    /\ IF MAX_RETRIES > 0
       THEN /\ pc' = "request"
            /\ provider' = self_after_request(provider)
            /\ UNCHANGED <<inner, result, origin>>
       ELSE /\ pc' = "done"
            /\ provider' = provider
            /\ inner' = call_api_exhausted
            /\ result' = Unwind(fr, call_api_exhausted)
            /\ origin' = FirstRaised(fr, call_api_exhausted)
    /\ UNCHANGED <<MAX_RETRIES, requests, sleeps, hist, last>>
    /\ UNCHANGED outside_api

\* A direct call of call_api (as list_models and get_credits make it).
call_api ==
    /\ pc = "idle" /\ ds_pc = "idle"
    /\ EnterCallApi([op |-> "call_api"], <<>>, None)

\* chat_completion(messages, temperature, max_tokens, **kwargs)
chat_completion ==
    /\ pc = "idle" /\ ds_pc = "idle"
    /\ \E messages \in MessagesInputs, temperature \in TemperatureInputs,
          max_tokens \in MaxTokensInputs :
          LET a == [op |-> "chat_completion", messages |-> messages,
                    temperature |-> temperature, max_tokens |-> max_tokens]
              d == chat_completion_data(messages, temperature, max_tokens, <<>>)
          IN  IF d.raised
              THEN EndEarly(a, <<"chat_completion">>, d)
              ELSE EnterCallApi(a, <<"chat_completion">>, d.value)

\* chat(prompt, role, **kwargs)
chat ==
    /\ pc = "idle" /\ ds_pc = "idle"
    /\ \E prompt \in PromptInputs, role \in RoleInputs, kwargs \in KwargsInputs :
          LET a == [op |-> "chat", prompt |-> prompt, role |-> role, kwargs |-> kwargs]
              c == chat_arguments(prompt, role, kwargs)
          IN  IF c.raised
              THEN EndEarly(a, <<"chat">>, c)
              ELSE LET d == chat_completion_data(c.value.messages, c.value.temperature,
                                                 c.value.max_tokens, c.value.kwargs)
                   IN  IF d.raised
                       THEN EndEarly(a, <<"chat_completion", "chat">>, d)
                       ELSE EnterCallApi(a, <<"chat_completion", "chat">>, d.value)

\* query(prompt, **kwargs), the blocking entry point
query ==
    /\ pc = "idle" /\ ds_pc = "idle"
    /\ \E prompt \in PromptInputs, kwargs \in KwargsInputs :
          LET a == [op |-> "query", prompt |-> prompt, kwargs |-> kwargs]
              d == chat_completion_data(List(<<Message("user", prompt.s)>>),
                                        KwArg(kwargs, "temperature"),
                                        KwArg(kwargs, "max_tokens"), OtherKwargs(kwargs))
          IN  IF d.raised
              THEN EndEarly(a, <<"chat_completion", "query">>, d)
              ELSE EnterCallApi(a, <<"chat_completion", "query">>, d.value)

\* health_check(): the probe is list_models(), i.e. call_api("/models", "GET")
health_check ==
    /\ pc = "idle" /\ ds_pc = "idle"
    /\ EnterCallApi([op |-> "health_check"], <<"health_check">>, None)

\* format_response(raw_response) called on its own
call_format_response ==
    /\ pc = "idle" /\ ds_pc = "idle"
    /\ \E raw \in RawResponses :
          /\ args' = [op |-> "format_response", raw_response |-> raw]
          /\ result' = format_response(raw)
          /\ origin' = IF result'.raised THEN result'.exc ELSE None
    /\ pc' = "done"
    /\ UNCHANGED <<MAX_RETRIES, frames, data, retries, requests, sleeps, hist, last, inner>>
    /\ UNCHANGED <<provider, outside_api>>

\* DeepSeekAPI.health_check(): the probe is call_api("/v1/user/balance", "GET")
deepseek_health_check ==
    /\ pc = "idle" /\ ds_pc = "idle"
    /\ \E event \in Events :
          /\ ds_last' = event
          /\ ds_result' = deepseek_health_check_result(deepseek_call_api(event))
    /\ ds_args' = [op |-> "health_check"]
    /\ ds_data' = None
    /\ ds_requests' = 1
    /\ ds_pc' = "done"
    /\ UNCHANGED outside_ds

\* DeepSeekAPI.chat(prompt, role, **kwargs)
deepseek_chat ==
    /\ pc = "idle" /\ ds_pc = "idle"
    /\ \E prompt \in PromptInputs, role \in RoleInputs, kwargs \in KwargsInputs :
          LET a == deepseek_chat_arguments(prompt, role, kwargs)
          IN  /\ ds_args' = [op |-> "chat", prompt |-> prompt, role |-> role,
                             kwargs |-> kwargs]
              /\ IF a.raised
                 THEN /\ ds_result' = a
                      /\ ds_data' = None
                      /\ ds_requests' = 0
                      /\ ds_last' = None
                 ELSE \E event \in Events :
                        LET res == deepseek_call_api(event)
                        IN  /\ ds_data' = deepseek_chat_completion_data(
                                              a.value.messages, a.value.temperature,
                                              a.value.max_tokens, a.value.kwargs)
                            /\ ds_requests' = 1
                            /\ ds_last' = event
                            /\ ds_result' = IF res.raised THEN res
                                            ELSE deepseek_format_response(res.value)
    /\ ds_pc' = "done"
    /\ UNCHANGED outside_ds

\* chat_completion(messages, temperature, max_tokens) of DeepSeekAPI, not
\* streamed: the request data is built and handed to call_api.
deepseek_chat_completion ==
    /\ pc = "idle" /\ ds_pc = "idle"
    /\ \E messages \in MessagesInputs, temperature \in TemperatureInputs,
          max_tokens \in {None, Num(500)}, event \in Events :
          /\ ds_args' = [op |-> "chat_completion", messages |-> messages,
                         temperature |-> temperature, max_tokens |-> max_tokens]
          /\ ds_data' = deepseek_chat_completion_data(messages, temperature,
                                                      max_tokens, <<>>)
          /\ ds_requests' = 1
          /\ ds_last' = event
          /\ ds_result' = deepseek_call_api(event)
    /\ ds_pc' = "done"
    /\ UNCHANGED outside_ds

\* The caller takes the result; the provider is idle again.
deepseek_caller_continues ==
    /\ ds_pc = "done"
    /\ ds_pc' = "idle"
    /\ ds_args' = NoArgs
    /\ ds_data' = None
    /\ ds_requests' = 0
    /\ ds_last' = None
    /\ ds_result' = Nothing
    /\ UNCHANGED outside_ds

EventName(event) == IF event.ev = "response" THEN ToString(event.status) ELSE event.ev

\* One pass through the loop body of call_api that ends the call.
call_api_ends ==
    /\ pc = "request"
    /\ \E event \in Events :
          LET it == call_api_iteration(retries, event)
          IN  /\ it.next \in {"return", "raise"}
              /\ requests' = requests + 1
              /\ hist' = Append(hist, EventName(event))
              /\ last' = event
              /\ retries' = it.retries
              /\ inner' = it.res
              /\ result' = Unwind(frames, it.res)
              /\ origin' = FirstRaised(frames, it.res)
              /\ pc' = "done"
    /\ UNCHANGED <<MAX_RETRIES, args, frames, data, sleeps>>
    /\ UNCHANGED <<provider, outside_api>>

\* One pass through the loop body that ends in asyncio.sleep and `continue`.
call_api_retries ==
    /\ pc = "request"
    /\ \E event \in Events :
          LET it == call_api_iteration(retries, event)
          IN  /\ it.next = "sleep"
              /\ requests' = requests + 1
              /\ hist' = Append(hist, EventName(event))
              /\ retries' = it.retries
              /\ sleeps' = Append(sleeps, it.delay)
              /\ pc' = "sleep"
    /\ UNCHANGED <<MAX_RETRIES, args, frames, data, last, inner, result, origin>>
    /\ UNCHANGED <<provider, outside_api>>

\* The sleep is over: the loop condition `retries > 0` is tested again.
sleep_over ==
    /\ pc = "sleep"
    /\ IF retries > 0
       THEN /\ pc' = "request"
            /\ provider' = self_after_request(provider)
            /\ UNCHANGED <<inner, result, origin>>
       ELSE /\ pc' = "done"
            /\ provider' = provider
            /\ inner' = call_api_exhausted
            /\ result' = Unwind(frames, call_api_exhausted)
            /\ origin' = FirstRaised(frames, call_api_exhausted)
    /\ UNCHANGED <<MAX_RETRIES, args, frames, data, retries, requests, sleeps, hist, last>>
    /\ UNCHANGED outside_api

\* The caller has its answer; the provider is ready for the next operation.
caller_continues ==
    /\ pc = "done"
    /\ pc' = "idle"
    /\ args' = NoArgs
    /\ frames' = <<>>
    /\ data' = None
    /\ retries' = 0
    /\ requests' = 0
    /\ sleeps' = <<>>
    /\ hist' = <<>>
    /\ last' = None
    /\ inner' = Nothing
    /\ result' = Nothing
    /\ origin' = None
    /\ UNCHANGED MAX_RETRIES
    /\ UNCHANGED <<provider, outside_api>>

Next ==
    \/ call_api
    \/ chat_completion
    \/ chat
    \/ query
    \/ health_check
    \/ call_format_response
    \/ call_api_ends
    \/ call_api_retries
    \/ sleep_over
    \/ caller_continues
    \/ deepseek_health_check
    \/ deepseek_chat
    \/ deepseek_chat_completion
    \/ deepseek_caller_continues

Spec == Init /\ [][Next]_vars

\* The same system when every HTTP exchange ends (with a response, a
\* transport failure or the timeout of the request) and every
\* asyncio.sleep returns.
SpecExchangesEnd ==
    /\ Spec
    /\ WF_vars(call_api_ends \/ call_api_retries)
    /\ WF_vars(sleep_over)

\* ------------------------------------------------------------------------
\* Two callers on one OpenRouterAPI instance and one event loop: each chat
\* call is a coroutine that runs until its next await (the request, the
\* retry sleep) and is resumed independently of the other.
\* ------------------------------------------------------------------------
\* The Agent both callers will pass to chat is created.
share_agent ==
    /\ shared_agent = None
    /\ \E agent \in SharedAgents : shared_agent' = agent
    /\ UNCHANGED <<calls, outside_cc>>

\* The local variable `retries` of the call_api coroutine of caller c.
retries_shared(calls_, c) == calls_[c].retries - calls_[3 - c].requests
retries_local(calls_, c) == calls_[c].retries

\* Caller c invokes chat(prompt, shared_agent); the coroutine runs up to its
\* first request.
concurrent_chat(c) ==
    /\ shared_agent # None
    /\ calls[c].pc = "idle"
    /\ LET a == chat_arguments(Str("What is X?"), shared_agent, <<>>)
           d == IF a.raised THEN a
                ELSE chat_completion_data(a.value.messages, a.value.temperature,
                                          a.value.max_tokens, a.value.kwargs)
       IN  IF a.raised
           THEN calls' = [calls EXCEPT ![c] =
                    [NoCall EXCEPT !.pc = "done", !.result = Unwind(<<"chat">>, a)]]
           ELSE IF d.raised
           THEN calls' = [calls EXCEPT ![c] =
                    [NoCall EXCEPT !.pc = "done",
                                   !.result = Unwind(<<"chat_completion", "chat">>, d)]]
           ELSE IF MAX_RETRIES > 0
           THEN calls' = [calls EXCEPT ![c] =
                    [NoCall EXCEPT !.pc = "request", !.retries = MAX_RETRIES]]
           ELSE calls' = [calls EXCEPT ![c] =
                    [NoCall EXCEPT !.pc = "done", !.retries = MAX_RETRIES,
                                   !.result = Unwind(<<"chat_completion", "chat">>,
                                                     call_api_exhausted)]]
    /\ UNCHANGED <<shared_agent, outside_cc>>

\* The request of caller c ends with an event; the coroutine runs on to its
\* retry sleep or to its end.
concurrent_request_ends(c) ==
    /\ calls[c].pc = "request"
    /\ \E event \in ConcurrentEvents :
          LET it == call_api_iteration(retries_local(calls, c), event)
              seen == [calls[c] EXCEPT !.requests = @ + 1,
                                       !.hist = Append(@, EventName(event)),
                                       !.retries = it.retries]
          IN  IF it.next = "sleep"
              THEN calls' = [calls EXCEPT ![c] = [seen EXCEPT !.pc = "sleep"]]
              ELSE calls' = [calls EXCEPT ![c] =
                       [seen EXCEPT !.pc = "done",
                                    !.result = Unwind(<<"chat_completion", "chat">>, it.res)]]
    /\ UNCHANGED <<shared_agent, outside_cc>>

\* The retry sleep of caller c is over; the loop test is made again.
concurrent_sleep_over(c) ==
    /\ calls[c].pc = "sleep"
    /\ IF retries_local(calls, c) > 0
       THEN calls' = [calls EXCEPT ![c].pc = "request"]
       ELSE calls' = [calls EXCEPT ![c].pc = "done",
                                   ![c].result = Unwind(<<"chat_completion", "chat">>,
                                                        call_api_exhausted)]
    /\ UNCHANGED <<shared_agent, outside_cc>>

\* Caller c takes the result of its call.
concurrent_caller_continues(c) ==
    /\ calls[c].pc = "done"
    /\ calls' = [calls EXCEPT ![c] = NoCall]
    /\ UNCHANGED <<shared_agent, outside_cc>>

NextConcurrent ==
    \/ share_agent
    \/ \E c \in Callers : concurrent_chat(c)
    \/ \E c \in Callers : concurrent_request_ends(c)
    \/ \E c \in Callers : concurrent_sleep_over(c)
    \/ \E c \in Callers : concurrent_caller_continues(c)

SpecConcurrent == Init /\ [][NextConcurrent]_vars

\* ------------------------------------------------------------------------
\* RoleManager (agents/role_manager.py)
\* ------------------------------------------------------------------------
\* get_role(role_name) = self.roles.get(role_name)
get_role_subscript(roles_, role_name) == Subscript(roles_, Str(role_name))
get_role(roles_, role_name) == DictGet(roles_, role_name, None)

\* self.active_roles.get(agent_id): the Agent stored under the id, 0 for None
active_lookup_first(active, agent_id) ==
    IF DOMAIN active # {} THEN active[CHOOSE id \in DOMAIN active : TRUE] ELSE 0
active_lookup(active, agent_id) ==
    IF agent_id \in DOMAIN active THEN active[agent_id] ELSE 0

\* The state of the manager an operation is called in.
Snapshot == [roles |-> roles, active_roles |-> active_roles, terminated |-> terminated]

\* with open(self.template_path, 'r', encoding='utf-8') as f: json.load(f)
read_templates(file) ==
    CASE file.state = "missing" ->
            Raised(BuiltinError("FileNotFoundError", "No such file or directory"))
      [] file.state = "unreadable" ->
            Raised(BuiltinError("PermissionError", "Permission denied"))
      [] file.state = "unparseable" ->
            Raised(BuiltinError("JSONDecodeError", "Expecting value"))
      [] OTHER -> Returned(file.content)

\* self.roles after load_templates(): assigned only when the file was read
\* and parsed.
roles_after_load_reset(roles_, file) ==
    IF read_templates(file).raised THEN EmptyDict ELSE read_templates(file).value
roles_after_load(roles_, file) ==
    IF read_templates(file).raised THEN roles_ ELSE read_templates(file).value

\* The file at template_path is written, replaced or removed.
write_template_file ==
    /\ \E f \in TemplateFiles : template_file' = f
    /\ rm_last' = [op |-> "write_template_file"]
    /\ UNCHANGED <<roles, active_roles, agents, terminated>>
    /\ UNCHANGED outside_rm

\* load_templates()
load_templates ==
    /\ roles' = roles_after_load(roles, template_file)
    /\ rm_last' = [op |-> "load_templates", before |-> Snapshot,
                   res |-> Returned(Bool(~read_templates(template_file).raised))]
    /\ UNCHANGED <<template_file, active_roles, agents, terminated>>
    /\ UNCHANGED outside_rm

\* create_agent(role_name)
create_agent ==
    /\ \E role_name \in RoleNames :
          LET role_config == get_role(roles, role_name)
          IN  IF role_config.raised
              THEN /\ rm_last' = [op |-> "create_agent", arg |-> role_name,
                                  res |-> role_config, before |-> Snapshot]
                   /\ agents' = agents
              ELSE IF Truthy(role_config.value)
              THEN /\ Len(agents) < MaxAgents
                   /\ agents' = Append(agents, Agent(role_config.value))
                   /\ rm_last' = [op |-> "create_agent", arg |-> role_name,
                                  res |-> Returned([type |-> "Agent",
                                                    oid |-> Len(agents) + 1]),
                                  before |-> Snapshot]
              ELSE /\ rm_last' = [op |-> "create_agent", arg |-> role_name,
                                  res |-> Returned(None), before |-> Snapshot]
                   /\ agents' = agents
    /\ UNCHANGED <<template_file, roles, active_roles, terminated>>
    /\ UNCHANGED outside_rm

\* No method of RoleManager stores into active_roles; the dict is a public
\* attribute, and the owner of the manager files an Agent under an id.
caller_sets_active_role ==
    /\ \E agent_id \in AgentIds, k \in 1..Len(agents) :
          /\ active_roles' = [id \in DOMAIN active_roles \cup {agent_id} |->
                                 IF id = agent_id THEN k ELSE active_roles[id]]
          /\ rm_last' = [op |-> "caller_sets_active_role", arg |-> agent_id]
    /\ UNCHANGED <<template_file, roles, agents, terminated>>
    /\ UNCHANGED outside_rm

\* terminate_agent(agent_id); Agent.terminate() does nothing but be called
terminate_agent ==
    /\ \E agent_id \in AgentIds :
          LET agent == active_lookup(active_roles, agent_id)
          IN  IF agent # 0
              THEN /\ terminated[agent] < MaxTerminate
                   /\ terminated' = [terminated EXCEPT ![agent] = @ + 1]
                   /\ rm_last' = [op |-> "terminate_agent", arg |-> agent_id,
                                  res |-> Returned(Bool(TRUE)), before |-> Snapshot]
              ELSE /\ terminated' = terminated
                   /\ rm_last' = [op |-> "terminate_agent", arg |-> agent_id,
                                  res |-> Returned(Bool(FALSE)), before |-> Snapshot]
    /\ UNCHANGED <<template_file, roles, active_roles, agents>>
    /\ UNCHANGED outside_rm

\* terminate_all_agents(), also what Deepcision.shutdown() calls
terminate_all_agents ==
    /\ LET calls_on(k) == Cardinality({id \in DOMAIN active_roles : active_roles[id] = k})
       IN  /\ \A k \in DOMAIN terminated : terminated[k] + calls_on(k) <= MaxTerminate
           /\ terminated' = [k \in DOMAIN terminated |-> terminated[k] + calls_on(k)]
    /\ rm_last' = [op |-> "terminate_all_agents", res |-> Returned(None),
                   before |-> Snapshot]
    /\ UNCHANGED <<template_file, roles, active_roles, agents>>
    /\ UNCHANGED outside_rm

NextRoleManager ==
    \/ write_template_file
    \/ load_templates
    \/ create_agent
    \/ caller_sets_active_role
    \/ terminate_agent
    \/ terminate_all_agents

SpecRoleManager == Init /\ [][NextRoleManager]_vars

\* ------------------------------------------------------------------------
\* ApiManager (api_integration/api_manager.py)
\* ------------------------------------------------------------------------
\* self.apis[api.api_name] = api
registry_after_add_first_wins(apis_, api) ==
    IF api.api_name \in DOMAIN apis_ THEN apis_
    ELSE [n \in DOMAIN apis_ \cup {api.api_name} |->
             IF n = api.api_name THEN api ELSE apis_[n]]
registry_after_add(apis_, api) ==
    [n \in DOMAIN apis_ \cup {api.api_name} |-> IF n = api.api_name THEN api ELSE apis_[n]]

\* self.apis as the manager m reads it: __init__ assigns no attribute, so
\* the name resolves to the dict of the class for every instance.
self_apis_of_instance(apis_, m) == IF m = 1 THEN apis_ ELSE <<>>
self_apis(apis_, m) == apis_

\* get_api(key) = self.apis[key]
registry_lookup(apis_, key) ==
    IF key \in DOMAIN apis_ THEN Returned(apis_[key])
    ELSE Raised(BuiltinError("KeyError", PyRepr(Str(key))))

\* get_config(config, "openrouter"): the OpenRouterConfig built from the raw
\* configuration, every field read with raw_config.get
get_config(config_, name) ==
    LET found == DictGet(config_, name, None)
        raw_config == IF found.raised THEN found ELSE Returned(Or(found.value, EmptyDict))
        base_url == IF raw_config.raised THEN raw_config
                    ELSE DictGet(raw_config.value, "base_url", None)
    IN  IF base_url.raised THEN base_url
        ELSE Returned(OpenRouterConfig(
                 base_url.value,
                 DictGet(raw_config.value, "api_key", None).value,
                 DictGet(raw_config.value, "model", None).value,
                 DictGet(raw_config.value, "timeout", None).value,
                 DictGet(raw_config.value, "http_referer", None).value,
                 DictGet(raw_config.value, "x_title", None).value))

\* initialize(config): the provider it constructs, or the exception raised on
\* the way; what it returns to its caller.
initialize_provider(config_, env_key) ==
    LET cfg == get_config(config_, "openrouter")
    IN  IF cfg.raised THEN cfg ELSE OpenRouterAPI_init(cfg.value, env_key, "openrouter")
initialize_result(config_, env_key) ==
    LET api == initialize_provider(config_, env_key)
    IN  IF api.raised THEN api ELSE Returned(Bool(TRUE))

\* ConfigLoader.save_config("openrouter", value)
save_config ==
    /\ \E value \in RawConfigs : config' = Dict([openrouter |-> value])
    /\ am_last' = [op |-> "save_config"]
    /\ UNCHANGED <<API_KEY, apis, added, added_by>>
    /\ UNCHANGED outside_am

\* OpenRouterAPI(config)
construct_provider ==
    /\ \E cfg \in ProviderConfigs :
          am_last' = [op |-> "OpenRouterAPI", arg |-> cfg,
                      res |-> OpenRouterAPI_init(cfg, API_KEY, "openrouter")]
    /\ UNCHANGED <<API_KEY, config, apis, added, added_by>>
    /\ UNCHANGED outside_am

\* m.add_api(api)
add_api ==
    /\ Len(added) < MaxAdds
    /\ \E m \in Managers, api \in ProviderInputs :
          /\ apis' = registry_after_add(self_apis(apis, m), api)
          /\ added' = Append(added, api)
          /\ added_by' = m
          /\ am_last' = [op |-> "add_api", m |-> m, arg |-> api, res |-> Returned(None),
                         before |-> apis]
    /\ UNCHANGED <<API_KEY, config>>
    /\ UNCHANGED outside_am

\* m.get_api(key)
get_api ==
    /\ \E m \in Managers, key \in LookupNames :
          am_last' = [op |-> "get_api", m |-> m, arg |-> key,
                      res |-> registry_lookup(self_apis(apis, m), key), before |-> apis]
    /\ UNCHANGED <<API_KEY, config, apis, added, added_by>>
    /\ UNCHANGED outside_am

\* m.initialize(config)
initialize ==
    /\ \E m \in Managers :
          LET api == initialize_provider(config, API_KEY)
          IN  /\ am_last' = [op |-> "initialize", m |-> m,
                             res |-> initialize_result(config, API_KEY), before |-> apis]
              /\ IF api.raised
                 THEN UNCHANGED <<apis, added, added_by>>
                 ELSE /\ Len(added) < MaxAdds
                      /\ apis' = registry_after_add(self_apis(apis, m), api.value)
                      /\ added' = Append(added, api.value)
                      /\ added_by' = m
    /\ UNCHANGED <<API_KEY, config>>
    /\ UNCHANGED outside_am

NextApiManager ==
    \/ save_config
    \/ construct_provider
    \/ add_api
    \/ get_api
    \/ initialize

SpecApiManager == InitComponents /\ [][NextApiManager]_vars

\* ------------------------------------------------------------------------
\* TokenizerService (api_integration/tokenizer/tokenizer_service.py)
\* ------------------------------------------------------------------------
\* name in self._tokenizer_classes
supported_any(classes, name) == TRUE
supported(classes, name) == name \in DOMAIN classes

\* name in self._tokenizers
cached_never(instances, name) == FALSE
cached(instances, name) == name \in DOMAIN instances

\* self._tokenizer_classes[name]
class_lookup(classes, name) ==
    IF name \in DOMAIN classes THEN Returned(classes[name])
    ELSE Raised(BuiltinError("KeyError", PyRepr(Str(name))))

\* tokenizer_class(model_dir), the oid-th object built.  DeepSeekTokenizer
\* loads the tokenizer files of model_dir and fails when they are not there;
\* MockTokenizer (tests/test_tokenizers.py) defines no __init__ and takes no
\* argument; WordTokenizer stands for a class whose __init__ accepts model_dir.
tokenizer_class(class, model_dir, files_found, oid) ==
    CASE class = "MockTokenizer" ->
            Raised(BuiltinError("TypeError", "MockTokenizer() takes no arguments"))
      [] class = "DeepSeekTokenizer" /\ ~files_found ->
            Raised(BuiltinError("OSError", "Can't load tokenizer"))
      [] OTHER -> Returned([type |-> class, model_dir |-> model_dir, oid |-> oid])

\* The state of the service an operation is called in.
ServiceSnapshot ==
    [classes |-> tokenizer_classes, tokenizers |-> tokenizers, constructed |-> constructed]

\* register_tokenizer(name, tokenizer_class)
register_tokenizer ==
    /\ \E name \in TokenizerNames, class \in TokenizerClasses :
          /\ tokenizer_classes' =
                [n \in DOMAIN tokenizer_classes \cup {name} |->
                    IF n = name THEN class ELSE tokenizer_classes[n]]
          /\ tk_last' = [op |-> "register_tokenizer", arg |-> name, class |-> class,
                         before |-> ServiceSnapshot]
    /\ UNCHANGED <<tokenizers, constructed>>
    /\ UNCHANGED outside_tk

\* get_tokenizer(name, model_dir)
get_tokenizer ==
    /\ \E name \in TokenizerLookups, model_dir \in ModelDirs, files_found \in BOOLEAN :
          LET call == [op |-> "get_tokenizer", arg |-> name, model_dir |-> model_dir,
                       before |-> ServiceSnapshot]
              class == class_lookup(tokenizer_classes, name)
          IN  IF ~supported(tokenizer_classes, name)
              THEN /\ tk_last' = call @@
                          [res |-> Raised(BuiltinError("ValueError",
                                       "Unsupported tokenizer: " \o name))]
                   /\ UNCHANGED <<tokenizers, constructed>>
              ELSE IF cached(tokenizers, name)
              THEN /\ tk_last' = call @@ [res |-> Returned(tokenizers[name])]
                   /\ UNCHANGED <<tokenizers, constructed>>
              ELSE IF class.raised
              THEN /\ tk_last' = call @@ [res |-> class]
                   /\ UNCHANGED <<tokenizers, constructed>>
              ELSE LET built == tokenizer_class(class.value, model_dir, files_found,
                                                constructed + 1)
                   IN  /\ constructed < MaxConstructed
                       /\ constructed' = constructed + 1
                       /\ tk_last' = call @@ [res |-> built]
                       /\ IF built.raised
                          THEN tokenizers' = tokenizers
                          ELSE tokenizers' =
                                  [n \in DOMAIN tokenizers \cup {name} |->
                                      IF n = name THEN built.value ELSE tokenizers[n]]
    /\ UNCHANGED tokenizer_classes
    /\ UNCHANGED outside_tk

NextTokenizer ==
    \/ register_tokenizer
    \/ get_tokenizer

SpecTokenizer == Init /\ [][NextTokenizer]_vars

\* ------------------------------------------------------------------------
\* TavilyAPI (api_integration/tavily/tavily_api.py)
\* ------------------------------------------------------------------------
\* The checks search makes before it builds the request data.
search_validation_inclusive(max_results, days) ==
    IF ~(0 < max_results.n /\ max_results.n <= 20)
    THEN Raised(BuiltinError("ValueError", "max_results must be between 1 and 19"))
    ELSE IF days # None /\ days.n <= 0
    THEN Raised(BuiltinError("ValueError", "days must be greater than 0"))
    ELSE Returned(None)
search_validation(max_results, days) ==
    IF ~(0 < max_results.n /\ max_results.n < 20)
    THEN Raised(BuiltinError("ValueError", "max_results must be between 1 and 19"))
    ELSE IF days # None /\ days.n <= 0
    THEN Raised(BuiltinError("ValueError", "days must be greater than 0"))
    ELSE Returned(None)

\* The JSON data of a search, every other parameter at its default.
search_data(text, max_results, time_range, days) ==
    [k \in (IF Truthy(time_range) THEN {"time_range"} ELSE {}) |-> time_range]
    @@ [k \in (IF Truthy(days) THEN {"days"} ELSE {}) |-> days]
    @@ [query |-> text, topic |-> Str("general"), search_depth |-> Str("basic"),
        max_results |-> max_results, include_answer |-> Bool(FALSE),
        include_raw_content |-> Bool(FALSE), include_images |-> Bool(FALSE),
        include_image_descriptions |-> Bool(FALSE)]

\* The JSON data of an extract.
extract_data(urls) ==
    [urls |-> IF urls.type = "str" THEN List(<<urls>>) ELSE urls,
     include_images |-> Bool(FALSE), extract_depth |-> Str("basic")]

\* _call_api(endpoint, data): one POST, for the event it ends with.
tavily_call_api(event) ==
    IF event.ev = "ClientError"
    THEN Raised(BuiltinError("Exception", "Network request failed: " \o event.text))
    ELSE IF event.ev = "TimeoutError"
    THEN Raised(BuiltinError("TimeoutError", ""))
    ELSE IF event.body.parse = "ContentTypeError"
    THEN Raised(BuiltinError("Exception",
             "Network request failed: Attempt to decode JSON with unexpected mimetype"))
    ELSE IF event.body.parse = "JSONDecodeError"
    THEN Raised(BuiltinError("JSONDecodeError", "Expecting value"))
    ELSE IF event.status = HTTP_OK
    THEN Returned(event.body.json)
    ELSE Raised(BuiltinError("Exception",
             "API call failed: " \o ToString(event.status) \o " - "
             \o PyRepr(event.body.json)))

\* search(query, max_results=..., time_range=..., days=...)
tavily_search ==
    /\ tv_pc = "idle"
    /\ \E max_results \in MaxResultsInputs, days \in DaysInputs,
          time_range \in TimeRangeInputs :
          LET text == Str("test")
              valid == search_validation(max_results, days)
          IN  /\ tv_args' = [op |-> "search", query |-> text,
                             max_results |-> max_results, days |-> days,
                             time_range |-> time_range]
              /\ IF valid.raised
                 THEN /\ tv_sent' = <<>>
                      /\ tv_result' = valid
                 ELSE \E event \in TavilyEvents :
                        /\ tv_sent' = <<[endpoint |-> "/search",
                                         data |-> search_data(text, max_results,
                                                              time_range, days)]>>
                        /\ tv_result' = tavily_call_api(event)
    /\ tv_pc' = "done"
    /\ UNCHANGED outside_tv

\* extract(urls)
tavily_extract ==
    /\ tv_pc = "idle"
    /\ \E urls \in UrlsInputs, event \in TavilyEvents :
          /\ tv_args' = [op |-> "extract", urls |-> urls]
          /\ tv_sent' = <<[endpoint |-> "/extract", data |-> extract_data(urls)]>>
          /\ tv_result' = tavily_call_api(event)
    /\ tv_pc' = "done"
    /\ UNCHANGED outside_tv

\* The caller takes the result; the client is idle again.
tavily_caller_continues ==
    /\ tv_pc = "done"
    /\ tv_pc' = "idle"
    /\ tv_args' = NoArgs
    /\ tv_sent' = <<>>
    /\ tv_result' = Nothing
    /\ UNCHANGED outside_tv

NextTavily ==
    \/ tavily_search
    \/ tavily_extract
    \/ tavily_caller_continues

SpecTavily == Init /\ [][NextTavily]_vars

\* ------------------------------------------------------------------------
\* Deepcision (main.py): initialize and shutdown of the application
\* ------------------------------------------------------------------------
\* dict.update
DictUpdate(a, b) ==
    Dict([k \in DOMAIN a.o \cup DOMAIN b.o |-> IF k \in DOMAIN b.o THEN b.o[k] ELSE a.o[k]])

\* ConfigLoader.initialize(): what it returns and the configuration it
\* leaves; every exception of _load_configs is reported as False.
config_loader_initialize(files, config_) ==
    CASE files.state = "none" -> [res |-> Returned(Bool(TRUE)), config |-> config_]
      [] files.state = "unparseable" -> [res |-> Returned(Bool(FALSE)), config |-> config_]
      [] OTHER -> [res |-> Returned(Bool(TRUE)),
                   config |-> DictUpdate(config_, files.content)]

\* `if not <stage>: return False`, inside the try of Deepcision.initialize
stage_stops_on_exception(outcome) == outcome.raised
stage_stops(outcome) == outcome.raised \/ ~Truthy(outcome.value)

\* except Exception as e: ... return False
deepcision_except(res) == IF res.raised THEN Returned(Bool(FALSE)) ELSE res

StageOrder == <<"config_loader", "api_manager", "role_manager", "reasoning_engine">>

\* Deepcision.initialize(): the stages are started one after the other
\* until one stops the run.
deepcision_initialize ==
    LET s1 == config_loader_initialize(config_files, config)
        api == initialize_provider(s1.config, API_KEY)
        s2 == initialize_result(s1.config, API_KEY)
        s3 == Returned(Bool(~read_templates(template_file).raised))
        s4 == Returned(Bool(TRUE))
        all == <<s1.res, s2, s3, s4>>
        \* the stages that are started: the first, and each one whose
        \* predecessors were all started and did not stop the run
        n == IF stage_stops(s1.res) THEN 1
             ELSE IF stage_stops(s2) THEN 2
             ELSE IF stage_stops(s3) THEN 3
             ELSE 4
        res == IF stage_stops(all[n])
               THEN (IF all[n].raised THEN all[n] ELSE Returned(Bool(FALSE)))
               ELSE Returned(Bool(TRUE))
    IN  /\ dc_last' = [op |-> "initialize",
                       started |-> SubSeq(StageOrder, 1, n),
                       outcomes |-> SubSeq(all, 1, n),
                       res |-> deepcision_except(res),
                       before |-> [config |-> config, apis |-> apis, roles |-> roles,
                                   re_initialized |-> re_initialized]]
        /\ config' = s1.config
        /\ cl_initialized' = (cl_initialized \/ Truthy(s1.res.value))
        /\ IF n >= 2 /\ ~api.raised
           THEN /\ Len(added) < MaxAdds
                /\ apis' = registry_after_add(self_apis(apis, 1), api.value)
                /\ added' = Append(added, api.value)
                /\ added_by' = 1
           ELSE UNCHANGED <<apis, added, added_by>>
        /\ roles' = IF n >= 3 THEN roles_after_load(roles, template_file) ELSE roles
        /\ re_initialized' = (re_initialized \/ n >= 4)
        /\ UNCHANGED <<config_files, API_KEY, am_last>>
        /\ UNCHANGED <<template_file, active_roles, agents, terminated, rm_last>>
        /\ UNCHANGED <<api_vars, ds_vars, cc_vars, tk_vars, tv_vars>>

\* Deepcision.shutdown(): reasoning_engine.shutdown(),
\* role_manager.terminate_all_agents(), config_loader.shutdown()
deepcision_shutdown ==
    /\ re_initialized' = FALSE
    /\ LET calls_on(k) == Cardinality({id \in DOMAIN active_roles : active_roles[id] = k})
       IN  /\ \A k \in DOMAIN terminated : terminated[k] + calls_on(k) <= MaxTerminate
           /\ terminated' = [k \in DOMAIN terminated |-> terminated[k] + calls_on(k)]
    /\ config' = EmptyDict
    /\ cl_initialized' = FALSE
    /\ dc_last' = [op |-> "shutdown"]
    /\ UNCHANGED <<config_files, API_KEY, apis, added, added_by, am_last>>
    /\ UNCHANGED <<template_file, roles, active_roles, agents, rm_last>>
    /\ UNCHANGED <<api_vars, ds_vars, cc_vars, tk_vars, tv_vars>>

\* The files of the configuration directory are written, replaced or removed.
write_config_files ==
    /\ \E f \in ConfigFiles : config_files' = f
    /\ dc_last' = [op |-> "write_config_files"]
    /\ UNCHANGED <<cl_initialized, re_initialized>>
    /\ UNCHANGED <<api_vars, ds_vars, rm_vars, cc_vars, am_vars, tk_vars, tv_vars>>

\* The role template file is written, replaced or removed.
write_role_templates ==
    /\ \E f \in TemplateFiles : template_file' = f
    /\ dc_last' = [op |-> "write_role_templates"]
    /\ UNCHANGED <<config_files, cl_initialized, re_initialized>>
    /\ UNCHANGED <<roles, active_roles, agents, terminated, rm_last>>
    /\ UNCHANGED <<api_vars, ds_vars, cc_vars, am_vars, tk_vars, tv_vars>>

NextDeepcision ==
    \/ write_config_files
    \/ write_role_templates
    \/ deepcision_initialize
    \/ deepcision_shutdown

SpecDeepcision == InitComponents /\ [][NextDeepcision]_vars

\* ------------------------------------------------------------------------
\* Properties
\* ------------------------------------------------------------------------
Ended == pc = "done"
InCallApi == pc \in {"request", "sleep"}
\* The requests hist[1..n] all ended with HTTP 429.
All429(n) == \A i \in 1..n : hist[i] = "429"
LastIsResponse == last # None /\ last.ev = "response"
\* The body is a JSON object whose "error" is absent or an object: the bodies
\* _handle_error_response can read a message from.
ReadableErrorBody(body) ==
    /\ body.parse = "ok"
    /\ body.json.type = "dict"
    /\ ("error" \in DOMAIN body.json.o => body.json.o.error.type = "dict")
\* The body is a JSON object whose "error" is an object with a "message".
HasErrorMessage(body) ==
    /\ body.parse = "ok"
    /\ body.json.type = "dict"
    /\ "error" \in DOMAIN body.json.o
    /\ body.json.o.error.type = "dict"
    /\ "message" \in DOMAIN body.json.o.error.o

\* C1: when the backend answers 429 k < MAX_RETRIES times and then 200 with a
\* JSON body, call_api returns that body after exactly k+1 requests and k
\* sleeps of RETRY_DELAY each; and while only 429s have been answered, fewer
\* than MAX_RETRIES of them, the call goes on (it gives up on no 429 before
\* the MAX_RETRIES-th).
C1_RetryThenSuccess ==
    /\ (InCallApi /\ All429(Len(hist))) =>
          /\ Len(hist) < MAX_RETRIES
          /\ requests = Len(hist)
    /\ (Ended /\ Len(hist) > 0 /\ All429(Len(hist))) => Len(hist) = MAX_RETRIES
    /\ (Ended /\ Len(hist) > 0 /\ All429(Len(hist) - 1) /\ hist[Len(hist)] = "200"
        /\ last.body.parse = "ok") =>
          LET k == Len(hist) - 1
          IN  /\ k < MAX_RETRIES
              /\ inner = Returned(last.body.json)
              /\ requests = k + 1
              /\ Len(sleeps) = k
              /\ \A i \in 1..k : sleeps[i] = RETRY_DELAY
C1_Witness ==
    /\ Ended /\ hist = <<"429", "429", "200">> /\ MAX_RETRIES = 3
    /\ inner = Returned(Completion(Str("hello")))
    /\ sleeps = <<RETRY_DELAY, RETRY_DELAY>>

\* C2 as stated: when all MAX_RETRIES >= 1 attempts are answered 429, the
\* call fails with APIError "Max retries exceeded".  Stated for the 429s whose
\* body is a readable JSON error object, the ordinary answer of the backend.
C2_MaxRetriesExceeded ==
    (Ended /\ MAX_RETRIES >= 1 /\ Len(hist) = MAX_RETRIES /\ All429(Len(hist))
     /\ ReadableErrorBody(last.body)) =>
        /\ inner.raised
        /\ inner.exc.kind = "APIError"
        /\ inner.exc.message = "Max retries exceeded"
\* C2 amended: when all MAX_RETRIES >= 1 attempts are answered 429 the call
\* fails after MAX_RETRIES requests and MAX_RETRIES - 1 sleeps, never with the
\* message "Max retries exceeded": with APIError "Rate limit exceeded" when
\* the last body is a JSON object whose error field is absent or an object.
\* "Max retries exceeded" is raised only when MAX_RETRIES < 1, before any
\* request.
C2_RateLimitAfterAllAttempts ==
    /\ (Ended /\ MAX_RETRIES >= 1 /\ Len(hist) = MAX_RETRIES /\ All429(Len(hist))) =>
          /\ inner.raised
          /\ inner.exc.message # "Max retries exceeded"
          /\ requests = MAX_RETRIES
          /\ Len(sleeps) = MAX_RETRIES - 1
          /\ ReadableErrorBody(last.body) =>
                (inner.exc.kind = "APIError" /\ inner.exc.message = "Rate limit exceeded")
    /\ (Ended /\ inner.raised /\ inner.exc.message = "Max retries exceeded") =>
          (MAX_RETRIES < 1 /\ requests = 0)
C2_Witness ==
    /\ Ended /\ MAX_RETRIES = 3 /\ hist = <<"429", "429", "429">>
    /\ ReadableErrorBody(last.body)
    /\ inner.raised /\ inner.exc.message = "Rate limit exceeded"

\* C3: a 429 received when the retry budget is exhausted (the counter has
\* reached 0), with a readable JSON error body, is raised as APIError "Rate
\* limit exceeded" with status_code 429 and the parsed body as error_data.
C3_RateLimitClassified ==
    (Ended /\ LastIsResponse /\ last.status = HTTP_TOO_MANY_REQUESTS
     /\ ReadableErrorBody(last.body)) =>
        /\ retries = 0
        /\ inner.raised
        /\ inner.exc.kind = "APIError"
        /\ inner.exc.message = "Rate limit exceeded"
        /\ inner.exc.status_code = Num(429)
        /\ inner.exc.error_data = last.body.json
C3_Witness ==
    /\ Ended /\ LastIsResponse /\ last.status = HTTP_TOO_MANY_REQUESTS
    /\ last.body = Json(Dict([error |-> Dict([message |-> Str("quota")])]))
    /\ Len(hist) = 2
    /\ inner.raised /\ inner.exc.status_code = Num(429)

\* C4: a response whose status is none of 200 and 429 and whose body is a JSON
\* object with error.message raises AuthenticationError "Invalid API key" for
\* 401, APIError "Insufficient credits" for 402 and APIError "API request
\* failed: <error.message>" for every other status, each with the status as
\* status_code and the parsed body as error_data.
C4_StatusMapping ==
    (Ended /\ LastIsResponse /\ last.status \notin {HTTP_OK, HTTP_TOO_MANY_REQUESTS}
     /\ HasErrorMessage(last.body)) =>
        /\ inner.raised
        /\ inner.exc.status_code = Num(last.status)
        /\ inner.exc.error_data = last.body.json
        /\ last.status = 401 =>
              (inner.exc.kind = "AuthenticationError" /\ inner.exc.message = "Invalid API key")
        /\ last.status = 402 =>
              (inner.exc.kind = "APIError" /\ inner.exc.message = "Insufficient credits")
        /\ last.status \notin {401, 402} =>
              /\ inner.exc.kind = "APIError"
              /\ inner.exc.message =
                    "API request failed: " \o last.body.json.o.error.o.message.s
C4_Witness ==
    /\ Ended /\ LastIsResponse /\ last.status = 402 /\ HasErrorMessage(last.body)
    /\ inner.raised /\ inner.exc.message = "Insufficient credits"
    /\ inner.exc.status_code = Num(402)

\* C5: only 429 is retried.  The first response whose status is neither 200
\* nor 429 ends the call with a raised exception: while the call is going on
\* every answer so far was a 429, and when such a response ends it, one more
\* request than the preceding 429s was issued and only those 429s were
\* followed by a sleep.
C5_OnlyRateLimitRetried ==
    /\ InCallApi => All429(Len(hist))
    /\ (Ended /\ LastIsResponse /\ last.status \notin {HTTP_OK, HTTP_TOO_MANY_REQUESTS}) =>
          /\ inner.raised
          /\ All429(Len(hist) - 1)
          /\ requests = Len(hist)
          /\ Len(sleeps) = Len(hist) - 1
          /\ retries = MAX_RETRIES - (Len(hist) - 1)
C5_Witness ==
    /\ Ended /\ hist = <<"429", "503">> /\ MAX_RETRIES = 3
    /\ inner.raised /\ requests = 2 /\ sleeps = <<RETRY_DELAY>> /\ retries = 2

\* C6 as stated: when the body of a non-200 response is not JSON, or its
\* error field is not an object with a message, call_api still raises by
\* status: AuthenticationError for 401, APIError otherwise, never another
\* exception class.
C6_UnreadableBodyClassified ==
    (Ended /\ LastIsResponse /\ last.status # HTTP_OK /\ ~HasErrorMessage(last.body)) =>
        /\ inner.raised
        /\ inner.exc.kind = IF last.status = 401 THEN "AuthenticationError" ELSE "APIError"

\* C7: a transport failure or a timeout ends the call at once with
\* NetworkError: it is followed by no sleep and no request, whatever is left
\* of the retry budget.
C7_NetworkErrorImmediate ==
    /\ InCallApi => \A i \in 1..Len(hist) : hist[i] \notin {"ClientError", "TimeoutError"}
    /\ (Ended /\ last # None /\ last.ev \in {"ClientError", "TimeoutError"}) =>
          /\ inner.raised
          /\ inner.exc.kind = "NetworkError"
          /\ hist[Len(hist)] = last.ev
          /\ requests = Len(hist)
          /\ Len(sleeps) = Len(hist) - 1
          /\ retries = MAX_RETRIES - (Len(hist) - 1)
C7_Witness ==
    /\ Ended /\ hist = <<"429", "TimeoutError">> /\ MAX_RETRIES = 3 /\ retries = 2
    /\ inner.raised /\ inner.exc.kind = "NetworkError"
    /\ inner.exc.message = "Request timed out"

\* C8: chat_completion with an empty message list or a max_tokens outside
\* [MIN_MAX_TOKENS, MAX_MAX_TOKENS], and chat with an empty prompt or no role,
\* end with ConfigurationError reaching the caller as such, and no HTTP
\* request is issued.
InvalidChatCompletion ==
    /\ args.op = "chat_completion"
    /\ \/ ~Truthy(args.messages)
       \/ /\ args.max_tokens # None
          /\ (args.max_tokens.n < MIN_MAX_TOKENS \/ args.max_tokens.n > MAX_MAX_TOKENS)
InvalidChat ==
    /\ args.op = "chat"
    /\ (args.prompt = Str("") \/ args.role = None)
C8_ConfigurationErrorBeforeIO ==
    (InvalidChatCompletion \/ InvalidChat) =>
        /\ Ended
        /\ result.raised
        /\ result.exc.kind = "ConfigurationError"
        /\ requests = 0
        /\ hist = <<>>
C8_Witness ==
    /\ args.op = "chat_completion" /\ Truthy(args.messages)
    /\ args.max_tokens = Num(32001)
    /\ Ended /\ result.raised /\ result.exc.kind = "ConfigurationError" /\ requests = 0

\* C9 as stated: for every temperature t that chat_completion is given, the
\* temperature of the request lies in [0, 2]; it is t when 0 <= t <= 2, 0 when
\* t < 0 and 2 when t > 2.
TemperatureSent ==
    args.op = "chat_completion" /\ args.temperature # None /\ data # None
C9_TemperatureClamp ==
    TemperatureSent =>
        LET t == args.temperature
            c == data.temperature
        IN  /\ c = validate_temperature(t)
            /\ c.type = "number" /\ 0 <= c.n /\ c.n <= 20
            /\ (Lt(t, Num(0)) => c = Num(0))
            /\ (Lt(Num(20), t) => c = Num(20))
            /\ (~Lt(t, Num(0)) /\ ~Lt(Num(20), t)) => c = t
\* The clamp on the temperatures that are numbers.
TemperatureClampOfNumbers ==
    (TemperatureSent /\ args.temperature.type = "number") =>
        LET t == args.temperature.n
            c == data.temperature
        IN  /\ c.type = "number" /\ 0 <= c.n /\ c.n <= 20
            /\ c.n = IF t < 0 THEN 0 ELSE IF t > 20 THEN 20 ELSE t

\* C10: for an integer n given as max_tokens, validation raises
\* ConfigurationError when n < MIN_MAX_TOKENS or n > MAX_MAX_TOKENS, and the
\* request carries n unchanged when MIN_MAX_TOKENS <= n <= MAX_MAX_TOKENS.
C10_MaxTokensValidation ==
    (args.op = "chat_completion" /\ Truthy(args.messages) /\ args.max_tokens # None) =>
        LET n == args.max_tokens.n
        IN  IF n < 1 \/ n > 32000
            THEN /\ result.raised
                 /\ result.exc.kind = "ConfigurationError"
                 /\ data = None
            ELSE /\ data # None
                 /\ data.max_tokens = Num(n)
                 /\ (Ended /\ result.raised) => inner.raised
C10_Witness ==
    /\ args.op = "chat_completion" /\ args.max_tokens = Num(1)
    /\ data # None /\ data.max_tokens = Num(1) /\ pc = "request"

\* The probe of health_check succeeded: its request was answered with
\* status 200 and a body that parses as JSON.
ProbeSucceeded(event) ==
    /\ event # None
    /\ event.ev = "response"
    /\ event.status = 200
    /\ event.body.parse = "ok"

\* C11: health_check of OpenRouterAPI and of DeepSeekAPI never raises; it
\* returns True when the probe call succeeded and False for every failure of
\* the probe (error status, exhausted retries, transport failure, timeout,
\* unparseable body).
C11_HealthCheckNeverRaises ==
    /\ (Ended /\ args.op = "health_check") =>
          /\ ~result.raised
          /\ result.value = Bool(ProbeSucceeded(last))
    /\ (ds_pc = "done" /\ ds_args.op = "health_check") =>
          /\ ~ds_result.raised
          /\ ds_result.value = Bool(ProbeSucceeded(ds_last))
C11_Witness ==
    /\ Ended /\ args.op = "health_check"
    /\ LastIsResponse /\ last.status = 401
    /\ result = Returned(Bool(FALSE))

\* The path choices[0].message.content exists in the raw response.
PathExists(raw) ==
    /\ raw.type = "dict" /\ "choices" \in DOMAIN raw.o
    /\ raw.o.choices.type = "list" /\ Len(raw.o.choices.a) > 0
    /\ raw.o.choices.a[1].type = "dict" /\ "message" \in DOMAIN raw.o.choices.a[1].o
    /\ raw.o.choices.a[1].o.message.type = "dict"
    /\ "content" \in DOMAIN raw.o.choices.a[1].o.message.o

\* C12 as stated: format_response returns choices[0].message.content when
\* the path exists and raises ResponseError, and no other kind of exception,
\* for every raw response in which a step of the path is absent.
C12_FormatResponseTotal ==
    args.op = "format_response" =>
        LET raw == args.raw_response
        IN  IF PathExists(raw)
            THEN result = Returned(raw.o.choices.a[1].o.message.o.content)
            ELSE result.raised /\ result.exc.kind = "ResponseError"

\* C13 as stated: an operation of OpenRouterAPI other than health_check that
\* ends because one of the typed errors was raised inside it raises an error
\* of that same kind to its caller.
C13_TypedErrorsNotDowngraded ==
    (/\ Ended
     /\ args.op \in {"call_api", "chat_completion", "chat", "query"}
     /\ origin # None
     /\ IsOpenRouterError(origin)) =>
        /\ result.raised
        /\ result.exc.kind = origin.kind

\* The role is an Agent whose configuration is a RoleConfig and whose
\* prompt_template has no replacement field other than {question}.
WellFormedRole(role) ==
    /\ role.type = "Agent"
    /\ role.role_config.type = "RoleConfig"
    /\ \A i \in DOMAIN role.role_config.attrs.prompt_template.segs :
          LET g == role.role_config.attrs.prompt_template.segs[i]
          IN  g.seg = "field" => g.name = "question"
\* The template with every replacement field replaced by the text.
RECURSIVE Substituted(_, _)
Substituted(segs, text) ==
    IF segs = <<>> THEN ""
    ELSE (IF Head(segs).seg = "lit" THEN Head(segs).s ELSE text)
         \o Substituted(Tail(segs), text)
\* The two messages the contract requires for the role and the prompt.
ComposedMessages(role, prompt) ==
    LET rc == role.role_config.attrs
    IN  List(<<Dict([role |-> Str("system"),
                     content |-> Str("You are " \o rc.name.s \o " " \o rc.description.s)]),
               Dict([role |-> Str("user"),
                     content |-> Str(Substituted(rc.prompt_template.segs, prompt.s))])>>)

\* C14: for a role and a non-empty prompt, the request chat dispatches
\* carries exactly two messages, the system message "You are <name>
\* <description>" and then the user message that is the role's
\* prompt_template with {question} replaced by the prompt; the same for
\* OpenRouterAPI and for DeepSeekAPI, which dispatches for every such role.
C14_RoleComposition ==
    /\ (args.op = "chat" /\ data # None) =>
          /\ WellFormedRole(args.role)
          /\ data.messages = ComposedMessages(args.role, args.prompt)
    /\ (ds_args.op = "chat" /\ ds_data # None) =>
          /\ WellFormedRole(ds_args.role)
          /\ ds_data.messages = ComposedMessages(ds_args.role, ds_args.prompt)
    /\ (ds_args.op = "chat" /\ WellFormedRole(ds_args.role)) => ds_data # None
C14_Witness ==
    /\ args.op = "chat" /\ args.prompt = Str("What is X?")
    /\ pc = "request"
    /\ data.messages =
          List(<<Dict([role |-> Str("system"),
                       content |-> Str("You are Analyst reviews data")]),
                 Dict([role |-> Str("user"),
                       content |-> Str("Question: What is X?")])>>)

\* C15 as stated: when the caller of chat passes temperature among the
\* overrides, for a well-formed role and a non-empty prompt, the request is
\* dispatched with the caller's temperature as the top-level temperature of
\* the payload, on OpenRouterAPI and on DeepSeekAPI.
C15_OverrideApplied ==
    /\ (/\ args.op = "chat" /\ Truthy(args.prompt) /\ WellFormedRole(args.role)
        /\ "temperature" \in DOMAIN args.kwargs
        /\ args.role.role_config.attrs.max_tokens = Num(500)
        /\ MAX_RETRIES > 0) =>
          /\ data # None
          /\ data.temperature = args.kwargs.temperature
    /\ (/\ ds_args.op = "chat" /\ WellFormedRole(ds_args.role)
        /\ "temperature" \in DOMAIN ds_args.kwargs) =>
          /\ ds_data # None
          /\ ds_data.temperature = ds_args.kwargs.temperature

\* The chat call of caller c is in flight: its request was sent and the call
\* has not finished (it awaits the answer or sleeps before a retry).
InFlight(c) == calls[c].pc \in {"request", "sleep"}

\* C16 as stated: two chat calls made with the same Agent whose role has
\* concurrent = false are never in flight at the same time.
C16_NonConcurrentSerialized ==
    (shared_agent # None /\ shared_agent.role_config.attrs.concurrent = Bool(FALSE)) =>
        ~(InFlight(1) /\ InFlight(2))

\* The last operation of the manager was op.
Did(op) == rm_last.op = op
\* The names that are loaded roles in the role table r.
LoadedNames(r) == IF r.type = "dict" THEN DOMAIN r.o ELSE {}

\* C17 as stated: when create_agent has returned an Agent, that Agent is in
\* the active-agent set under some id.
C17_CreatedAgentIsActive ==
    (Did("create_agent") /\ ~rm_last.res.raised /\ rm_last.res.value # None) =>
        \E id \in DOMAIN active_roles : active_roles[id] = rm_last.res.value.oid

\* C18 as stated: when terminate_all_agents has returned, the active-agent
\* set is empty.
C18_TerminateAllEmpties ==
    Did("terminate_all_agents") => DOMAIN active_roles = {}

\* C19: create_agent(name) for a name that is not a loaded role returns None
\* without raising and leaves the roles, the Agents and the active-agent set
\* as they were, before and after load_templates.
C19_UnknownRoleYieldsNone ==
    (Did("create_agent") /\ rm_last.arg \notin LoadedNames(rm_last.before.roles)) =>
        /\ rm_last.res = Returned(None)
        /\ roles = rm_last.before.roles
        /\ active_roles = rm_last.before.active_roles
C19_Witness ==
    /\ Did("create_agent") /\ rm_last.arg = "Ghost"
    /\ LoadedNames(roles) = {"Analyst"}
    /\ rm_last.res = Returned(None)
    /\ DOMAIN active_roles # {}

\* C20: terminate_agent(id) for an id that is not in the active-agent set
\* returns False without raising, calls terminate() on no Agent and leaves
\* the active-agent set as it was.
C20_UnknownIdIsNoOp ==
    (Did("terminate_agent") /\ rm_last.arg \notin DOMAIN rm_last.before.active_roles) =>
        /\ rm_last.res = Returned(Bool(FALSE))
        /\ terminated = rm_last.before.terminated
        /\ active_roles = rm_last.before.active_roles
C20_Witness ==
    /\ Did("terminate_agent") /\ rm_last.arg = "a2"
    /\ DOMAIN active_roles = {"a1"}
    /\ rm_last.res = Returned(Bool(FALSE))

\* The last operation of the ApiManager was op.
DidApi(op) == am_last.op = op

\* C22 as stated: get_api(name) returns the registered provider when name is
\* registered and returns None, without raising, when it is not.
C22_GetApiSignalsAbsence ==
    DidApi("get_api") =>
        IF am_last.arg \in DOMAIN am_last.before
        THEN am_last.res = Returned(am_last.before[am_last.arg])
        ELSE am_last.res = Returned(None)

\* The provider of the most recent add_api under the name n in the log.
RECURSIVE LastAdded(_, _)
LastAdded(log, n) ==
    IF log[Len(log)].api_name = n THEN log[Len(log)]
    ELSE LastAdded(SubSeq(log, 1, Len(log) - 1), n)
NamesAdded == {added[i].api_name : i \in DOMAIN added}

\* C23: get_api(n) returns the provider of the most recent add_api whose
\* api_name is n, and an add_api under one name leaves the entry of every
\* other name as it was.
C23_LastRegistrationWins ==
    /\ (DidApi("get_api") /\ am_last.arg \in NamesAdded) =>
          am_last.res = Returned(LastAdded(added, am_last.arg))
    /\ DidApi("add_api") =>
          \A n \in LookupNames \ {am_last.arg.api_name} :
             /\ n \in DOMAIN apis <=> n \in DOMAIN am_last.before
             /\ n \in DOMAIN apis => apis[n] = am_last.before[n]
C23_Witness ==
    /\ DidApi("get_api") /\ am_last.arg = "openrouter"
    /\ Len(added) = 2
    /\ added[1].api_name = "openrouter" /\ added[1].oid = 1
    /\ added[2].api_name = "openrouter" /\ added[2].oid = 2
    /\ am_last.res = Returned(added[2])

\* The resolved api_key has the shape of a credential: a non-empty string
\* that starts with "sk-".
CredentialShape(key) ==
    /\ key.type = "str"
    /\ Len(key.s) >= 3
    /\ SubSeq(key.s, 1, 3) = "sk-"
\* The api_key a construction resolves: the config value, else the environment.
ResolvedKey(cfg) ==
    IF cfg = None THEN None
    ELSE IF cfg.attrs.api_key \in {None, Str("")} THEN API_KEY
    ELSE cfg.attrs.api_key

\* C28: constructing OpenRouterAPI raises ConfigurationError when the
\* resolved api_key is absent, empty or does not start with "sk-", and no
\* request is made; when construction succeeds the api_key of the instance
\* starts with "sk-".
C28_CredentialShape ==
    DidApi("OpenRouterAPI") =>
        /\ requests = 0 /\ ds_requests = 0
        /\ IF CredentialShape(ResolvedKey(am_last.arg))
           THEN /\ ~am_last.res.raised
                /\ am_last.res.value.api_key = ResolvedKey(am_last.arg)
           ELSE /\ am_last.res.raised
                /\ am_last.res.exc.kind = "ConfigurationError"
C28_Witness ==
    /\ DidApi("OpenRouterAPI")
    /\ am_last.arg # None /\ am_last.arg.attrs.api_key = Str("bad-key")
    /\ API_KEY = Str("sk-env-key")
    /\ am_last.res.raised /\ am_last.res.exc.kind = "ConfigurationError"

\* C29 as stated: when the configuration of the provider is present and its
\* construction fails, initialize gives its caller a result different from
\* the one it gives when the provider is not configured.
C29_FailureDistinctFromNotConfigured ==
    (/\ DidApi("initialize")
     /\ "openrouter" \in DOMAIN config.o
     /\ am_last.res.raised) =>
        am_last.res # initialize_result(EmptyDict, API_KEY)

\* The last operation of the TokenizerService was op.
DidTokenizer(op) == tk_last.op = op

\* C24 as stated: a get_tokenizer(n) that returns an instance returns one
\* built by the class most recently registered under n.
C24_ReRegistrationWins ==
    (DidTokenizer("get_tokenizer") /\ ~tk_last.res.raised) =>
        tk_last.res.value.type = tokenizer_classes[tk_last.arg]

C26_UnregisteredNameRejected ==
    (DidTokenizer("get_tokenizer") /\ tk_last.arg \notin DOMAIN tk_last.before.classes) =>
        /\ tk_last.res.raised
        /\ tk_last.res.exc.kind = "ValueError"
        /\ constructed = tk_last.before.constructed
        /\ tokenizer_classes = tk_last.before.classes
        /\ tokenizers = tk_last.before.tokenizers
C26_Witness ==
    /\ DidTokenizer("get_tokenizer") /\ tk_last.arg = "invalid"
    /\ tk_last.res.raised /\ tk_last.res.exc.kind = "ValueError"
    /\ DOMAIN tokenizers # {}

\* C21: load_templates always returns a boolean; it returns False when the
\* template file is missing, unreadable or not JSON, and the role table is
\* then what it was before the call; it returns True otherwise, and the role
\* table is then the content of the file.
C21_LoadTemplatesBooleanFailure ==
    Did("load_templates") =>
        /\ ~rm_last.res.raised
        /\ IF template_file.state \in {"missing", "unreadable", "unparseable"}
           THEN rm_last.res.value = Bool(FALSE) /\ roles = rm_last.before.roles
           ELSE rm_last.res.value = Bool(TRUE) /\ roles = template_file.content
C21_Witness ==
    /\ Did("load_templates")
    /\ rm_last.res.value = Bool(FALSE)
    /\ template_file.state = "unparseable"
    /\ roles # EmptyDict

\* C27: the provider's headers were built once, when it was constructed, and
\* its headers, api_key, model, base_url and timeout are at every point of
\* every call what construction made them.
C27_ProviderReadOnly ==
    /\ provider.headers_built = 1
    /\ provider.headers = ProviderOfSpec.headers
    /\ provider.api_key = ProviderOfSpec.api_key
    /\ provider.model = ProviderOfSpec.model
    /\ provider.base_url = ProviderOfSpec.base_url
    /\ provider.timeout = ProviderOfSpec.timeout
C27_Witness ==
    /\ Ended
    /\ requests >= 2
    /\ provider.headers_built = 1
    /\ provider.headers = build_headers(ProviderOfSpec)

\* C30 as stated: a chat of DeepSeekAPI whose request met a transport failure
\* or a timeout raises NetworkError, one whose request was answered with a
\* status other than 200 raises APIError or a subtype of it (the error of a
\* rejected credential, AuthenticationError, is counted with them), and one
\* whose response has no choices[0].message.content raises ResponseError.
C30_DeepSeekSharedTaxonomy ==
    (ds_pc = "done" /\ ds_args.op = "chat" /\ ds_requests = 1) =>
        /\ ds_last.ev \in {"ClientError", "TimeoutError"} =>
              ds_result.raised /\ ds_result.exc.kind = "NetworkError"
        /\ (ds_last.ev = "response" /\ ds_last.status # HTTP_OK) =>
              ds_result.raised /\ ds_result.exc.kind \in {"APIError", "AuthenticationError"}
        /\ (/\ ds_last.ev = "response" /\ ds_last.status = HTTP_OK
            /\ ds_last.body.parse = "ok"
            /\ ~PathExists(ds_last.body.json)) =>
              ds_result.raised /\ ds_result.exc.kind = "ResponseError"

\* C32: call_api makes at most MAX_RETRIES requests and, when MAX_RETRIES is
\* at least 1, at most MAX_RETRIES - 1 sleeps (none when it is less); it
\* sleeps only when an attempt is left to follow the sleep; and once entered
\* it ends, with a returned body or a raised error, given that every exchange
\* and every sleep ends.
C32_Bounded ==
    /\ requests <= MAX_RETRIES
    /\ Len(sleeps) <= IF MAX_RETRIES >= 1 THEN MAX_RETRIES - 1 ELSE 0
    /\ Len(sleeps) <= requests
    /\ pc = "sleep" => (retries > 0 /\ requests < MAX_RETRIES)
    /\ (Ended /\ args.op = "call_api") => "pending" \notin DOMAIN inner
C32_CallApiTerminates == [](C32_Bounded) /\ (InCallApi ~> Ended)
C32_Witness ==
    /\ Ended /\ args.op = "call_api" /\ MAX_RETRIES = 3
    /\ requests = 3 /\ Len(sleeps) = 2
    /\ inner.raised

\* The number of 429 answers among the first n entries of h.
Count429(h, n) == Cardinality({i \in 1..n : h[i] = "429"})

\* C33: the retry counter of each of the concurrent calls is MAX_RETRIES less
\* the 429 answers to its own requests; a call gives up on a 429 only at its
\* own MAX_RETRIES-th request, and how it ends is decided by the answer to
\* its own last request.
C33_RetryBudgetPerCall ==
    \A c \in Callers :
        LET call == calls[c]
            n == Len(call.hist)
        IN  /\ (InFlight(c) \/ n > 0) =>
                  /\ call.retries = MAX_RETRIES - Count429(call.hist, n)
                  /\ call.requests = n
                  /\ n <= MAX_RETRIES
            /\ InFlight(c) => Count429(call.hist, n) = n /\ n < MAX_RETRIES
            /\ (call.pc = "done" /\ n > 0) =>
                  /\ Count429(call.hist, n - 1) = n - 1
                  /\ call.hist[n] = "200" => ~call.result.raised
                  /\ call.hist[n] = "TimeoutError" =>
                        call.result.raised /\ call.result.exc.kind = "NetworkError"
                  /\ call.hist[n] = "429" =>
                        n = MAX_RETRIES /\ call.result.raised
                        /\ call.result.exc.kind = "APIError"
C33_Witness ==
    /\ MAX_RETRIES = 3
    /\ calls[1].pc = "done" /\ calls[1].hist = <<"429", "429", "429">>
    /\ calls[2].pc = "done" /\ calls[2].hist = <<"429", "429", "200">>
    /\ ~calls[2].result.raised

\* C34 as stated: the temperature DeepSeekAPI.chat_completion sends lies in
\* [0, 2]; it is the caller's t for every t given with 0 <= t <= 2, t = 0
\* included, and the provider default only when no temperature is given.
C34_DeepSeekTemperatureClamp ==
    (ds_pc = "done" /\ ds_args.op = "chat_completion") =>
        LET t == ds_args.temperature
            sent == ds_data.temperature
        IN  /\ sent.type = "number" /\ 0 <= sent.n /\ sent.n <= 20
            /\ (t.type = "number" /\ 0 <= t.n /\ t.n <= 20) => sent = t
            /\ (t # None) => (sent = DEEPSEEK_DEFAULT_TEMPERATURE => t = sent)

\* C36 as stated: after terminate_agent(id) has returned True, id is not in
\* the active-agent set (so a second terminate_agent(id) returns False), and
\* terminate() is called at most once on any Agent.
C36_TerminationFinal ==
    /\ (Did("terminate_agent") /\ rm_last.res = Returned(Bool(TRUE))) =>
          rm_last.arg \notin DOMAIN active_roles
    /\ \A k \in DOMAIN terminated : terminated[k] <= 1

\* C37: when chat or chat_completion of OpenRouterAPI raises, it raises a
\* member of the taxonomy: the OpenRouterError that was raised inside, as it
\* was (same kind, message, status_code and error_data), or APIError when
\* what was raised inside is any other exception.
C37_OnlyTypedErrors ==
    (Ended /\ args.op \in {"chat", "chat_completion"} /\ result.raised) =>
        /\ IsOpenRouterError(result.exc)
        /\ origin # None
        /\ IsOpenRouterError(origin) => result.exc = origin
        /\ ~IsOpenRouterError(origin) => result.exc.kind = "APIError"
C37_Witness ==
    /\ Ended /\ args.op = "chat"
    /\ origin # None /\ origin.kind = "KeyError"
    /\ result.raised /\ result.exc.kind = "APIError"

\* C39: a get_api(n) through one manager returns the provider that was last
\* added, under n, through the other manager: what the one registers the
\* other finds, and what the other registers replaces what the one finds.
C39_RegistryPerProcess ==
    (/\ DidApi("get_api")
     /\ added # <<>>
     /\ added[Len(added)].api_name = am_last.arg
     /\ added_by # am_last.m) =>
        am_last.res = Returned(added[Len(added)])
C39_Witness ==
    /\ DidApi("get_api") /\ am_last.m = 1 /\ am_last.arg = "openrouter"
    /\ added_by = 2 /\ Len(added) = 2
    /\ added[1].api_name = "openrouter" /\ added[2].api_name = "openrouter"
    /\ added[1] # added[2]
    /\ am_last.res = Returned(added[2])

\* C35 as stated: every Agent create_agent has returned references a
\* RoleConfig, and chat(prompt, agent) of a provider composes its messages
\* from it without raising.
C35_RoleFlow ==
    \A k \in DOMAIN agents :
        /\ agents[k].role_config.type = "RoleConfig"
        /\ ~chat_arguments(Str("What is X?"), agents[k], <<>>).raised

Succeeded(outcome) == ~outcome.raised /\ Truthy(outcome.value)

\* C38: Deepcision.initialize starts the stages in the order config loader,
\* API manager, role manager, reasoning engine; every stage it started
\* before the last one succeeded; it returns a boolean and never raises,
\* True exactly when all four were started and succeeded; and the component
\* of a stage that was not started is as it was before the call.
C38_StagesInOrder ==
    dc_last.op = "initialize" =>
        LET n == Len(dc_last.started)
        IN  /\ n >= 1 /\ n <= 4
            /\ dc_last.started = SubSeq(StageOrder, 1, n)
            /\ \A i \in 1..(n - 1) : Succeeded(dc_last.outcomes[i])
            /\ ~dc_last.res.raised
            /\ dc_last.res.value \in {Bool(TRUE), Bool(FALSE)}
            /\ dc_last.res.value = Bool(TRUE) <=>
                  (n = 4 /\ \A i \in 1..4 : Succeeded(dc_last.outcomes[i]))
            /\ n < 2 => apis = dc_last.before.apis
            /\ n < 3 => roles = dc_last.before.roles
            /\ n < 4 => re_initialized = dc_last.before.re_initialized
C38_Witness ==
    /\ dc_last.op = "initialize"
    /\ dc_last.started = <<"config_loader", "api_manager">>
    /\ dc_last.outcomes[2].raised
    /\ dc_last.res = Returned(Bool(FALSE))
    /\ template_file.state = "json" /\ roles = EmptyDict
    /\ ~re_initialized

====
